---- MODULE Spec2Model ----
(***************************************************************************)
(* Model of the six-stage legislative-impact pipeline of                   *)
(* traitements/shared/Modele/analyseur_loi: the orchestrator               *)
(* (orchestrator.py), the object store it writes through (s3_handler.py)   *)
(* and the scoring functions of the agents.                                *)
(*                                                                         *)
(* Numbers the code keeps as floats are kept as scaled integers:           *)
(*   impact coefficients in half units (coefficient * 2),                  *)
(*   means as a pair (sum of half units, count),                           *)
(*   rates in thousandths (rate * 1000).                                   *)
(***************************************************************************)
EXTENDS Integers, Sequences, FiniteSets, TLC

VARIABLES
    \* ---- orchestrator and object store
    store,          \* keys present in the bucket
    writer,         \* key -> number of the call that last put it (0: before construction)
    execution_log,  \* LegislativeImpactOrchestrator.execution_log
    pc,             \* where the orchestrator is
    agent_id,       \* loop variable of execute_full_pipeline / argument of execute_single_agent
    results,        \* keys of the local dict `results` of execute_full_pipeline
    read_ok,        \* the running agent could read its input snapshots
    run,            \* number of calls made on the orchestrator so far
    mode,           \* which entry point the current (last) call used
    outcome,        \* how the current (last) call ended
    ret,            \* value the last call returned to its caller
    calls,          \* history: the agents started by the current (last) call
    log_before,     \* history: Len(execution_log) when the current call began
    runs,           \* two orchestrators running execute_full_pipeline on one bucket
    \* ---- sector classifier
    ticker, ticker_sectors, assigned_sector, heuristic_used,
    \* ---- legislative impact analyzer
    content, law, sector_id, impact_coefficient, theme_score,
    \* ---- monetary flow modeler
    coefficient, market_cap, monetary_impact,
    \* ---- sector impact quantifier
    timeline_years, max_projection_years, total_percent_change, yearly_projections,
    \* ---- portfolio reallocator
    reallocated_company,  \* what _reallocate_single_company returned for the last company
    \* ---- S3Handler over one bucket
    base_path,      \* the base_path the handler was constructed with
    objects,        \* full key -> body of the object in the bucket
    written,        \* history: key -> the data last handed to write_json for it
    read_result,    \* what the last read_json did
    \* ---- reading the law files
    reader, law_files, listing_ok, laws_data,
    \* ---- one object-store call and its attempts
    store_call, failures_ahead, attempt_number, call_outcome,
    \* ---- the documents handed from stage to stage in one run
    portfolio_data, laws_read, execution_parameters, stage, sector_taxonomy, laws_analyzed, sector_flows, sector_forecasts, reallocated_companies,
    \* ---- AgenticLawS3Analyzer.analyze_laws_s3
    active_strands, strand_pc, analysis_result, analyses

orch_vars == <<store, writer, execution_log, pc, agent_id, results, read_ok, run,
               mode, outcome, ret, calls, log_before>>
\* what one orchestrator keeps to itself
orch_local == <<execution_log, pc, agent_id, results, read_ok, run, mode, outcome, ret,
                calls, log_before>>
concurrent_vars == <<runs>>
classifier_vars == <<ticker, ticker_sectors, assigned_sector, heuristic_used>>
analyzer_vars == <<content, law, sector_id, impact_coefficient, theme_score>>
modeler_vars == <<coefficient, market_cap, monetary_impact>>
quantifier_vars == <<timeline_years, max_projection_years, total_percent_change,
                     yearly_projections>>
reallocator_vars == <<reallocated_company>>
handler_vars == <<base_path, objects, written, read_result>>
reader_vars == <<reader, law_files, listing_ok, laws_data>>
retry_vars == <<store_call, failures_ahead, attempt_number, call_outcome>>
dataflow_vars == <<portfolio_data, laws_read, execution_parameters, stage, sector_taxonomy, laws_analyzed, sector_flows, sector_forecasts, reallocated_companies>>
strands_vars == <<active_strands, strand_pc, analysis_result, analyses>>
vars == <<orch_vars, classifier_vars, analyzer_vars, modeler_vars, quantifier_vars,
          reallocator_vars, concurrent_vars, handler_vars, reader_vars, retry_vars,
          dataflow_vars, strands_vars>>
\* Everything a component leaves alone.
not_orch == <<classifier_vars, analyzer_vars, modeler_vars, quantifier_vars,
              reallocator_vars, concurrent_vars, handler_vars, reader_vars, retry_vars,
              dataflow_vars, strands_vars>>
not_classifier == <<orch_vars, analyzer_vars, modeler_vars, quantifier_vars,
                    reallocator_vars, concurrent_vars, handler_vars, reader_vars,
                    retry_vars, dataflow_vars, strands_vars>>
not_analyzer == <<orch_vars, classifier_vars, modeler_vars, quantifier_vars,
                  reallocator_vars, concurrent_vars, handler_vars, reader_vars,
                  retry_vars, dataflow_vars, strands_vars>>
not_modeler == <<orch_vars, classifier_vars, analyzer_vars, quantifier_vars,
                 reallocator_vars, concurrent_vars, handler_vars, reader_vars,
                 retry_vars, dataflow_vars, strands_vars>>
not_quantifier == <<orch_vars, classifier_vars, analyzer_vars, modeler_vars,
                    reallocator_vars, concurrent_vars, handler_vars, reader_vars,
                    retry_vars, dataflow_vars, strands_vars>>
not_reallocator == <<orch_vars, classifier_vars, analyzer_vars, modeler_vars,
                     quantifier_vars, concurrent_vars, handler_vars, reader_vars,
                     retry_vars, dataflow_vars, strands_vars>>
not_concurrent == <<classifier_vars, analyzer_vars, modeler_vars, quantifier_vars,
                    reallocator_vars, handler_vars, reader_vars, retry_vars,
                    dataflow_vars, strands_vars>>
not_handler == <<orch_vars, classifier_vars, analyzer_vars, modeler_vars,
                 quantifier_vars, reallocator_vars, concurrent_vars, reader_vars,
                 retry_vars, dataflow_vars, strands_vars>>
not_reader == <<orch_vars, classifier_vars, analyzer_vars, modeler_vars,
                quantifier_vars, reallocator_vars, concurrent_vars, handler_vars,
                retry_vars, dataflow_vars, strands_vars>>
not_retry == <<orch_vars, classifier_vars, analyzer_vars, modeler_vars,
               quantifier_vars, reallocator_vars, concurrent_vars, handler_vars,
               reader_vars, dataflow_vars, strands_vars>>
not_dataflow == <<orch_vars, classifier_vars, analyzer_vars, modeler_vars,
                  quantifier_vars, reallocator_vars, concurrent_vars, handler_vars,
                  reader_vars, retry_vars, strands_vars>>
not_strands == <<orch_vars, classifier_vars, analyzer_vars, modeler_vars,
                 quantifier_vars, reallocator_vars, concurrent_vars, handler_vars,
                 reader_vars, retry_vars, dataflow_vars>>

\* ------------------------------------------------------------------ bounds
\* Number of calls (execute_full_pipeline / execute_single_agent) made on one orchestrator.
MaxRuns == 2

\* ------------------------------------------------------------------ object store
portfolio_file == "portfolio.csv"
K01 == "01_portfolio_data.json"
K02 == "02_sector_taxonomy.json"
K03 == "03_sector_impact_coefficients.json"
K04 == "04_monetary_flow_model.json"
K05 == "05_sector_quantified_impacts.json"
K06 == "06_portfolio_reallocated.json"
final_csv == "2025-08-15_composition_sp500_updated.csv"
marker_path == ".marker"
report_path == "execution_report.json"

Snapshots == {K01, K02, K03, K04, K05, K06}
Keys == Snapshots \cup {portfolio_file, final_csv, marker_path, report_path}

\* S3Handler.write_json / write_csv: put_object replaces the key's content.
write_json(s, key) == s \cup {key}
Stamp(w, keys, r) == [k \in Keys |-> IF k \in keys THEN r ELSE w[k]]

\* ------------------------------------------------------------------ agents
AgentIds == 1..6

\* The snapshot each agent reads at its start (read_json / read_csv).
AgentReads(id) ==
    CASE id = 1 -> {portfolio_file}
      [] id = 2 -> {K01}
      [] id = 3 -> {K02}
      [] id = 4 -> {K02, K03}
      [] id = 5 -> {K04}
      [] id = 6 -> {K01, K02, K05}
      [] OTHER -> {}

AgentOutput_stage2_reuses_key(id) ==
    CASE id = 1 -> K01
      [] id = 2 -> K01
      [] id = 3 -> K03
      [] id = 4 -> K04
      [] id = 5 -> K05
      [] OTHER -> K06
\* The snapshot each agent writes before it returns.
AgentOutput(id) ==
    CASE id = 1 -> K01
      [] id = 2 -> K02
      [] id = 3 -> K03
      [] id = 4 -> K04
      [] id = 5 -> K05
      [] OTHER -> K06

\* Variant: agent 3 returns without having put its snapshot.
AgentWrites_agent3_skips_put(id) ==
    IF id = 6 THEN {K06, final_csv} ELSE IF id = 3 THEN {} ELSE {AgentOutput(id)}

\* Everything an agent has put when it returns: its snapshot, and for agent 6 the final CSV.
AgentWrites(id) == IF id = 6 THEN {K06, final_csv} ELSE {AgentOutput(id)}

\* What an agent that raises has put: nothing, unless it is agent 6 failing in
\* _generate_final_csv, after 06_portfolio_reallocated.json was written.
\* cause: "read" (read_json/read_csv raised), "validation" (agents 1 and 2: the
\* JSONValidator rejected output_data, ValueError), "compute" (any other error before
\* the write), "write" (write_json raised), "csv" (agent 6: write_csv raised).
Causes(id) == IF id = 6 THEN {"read", "compute", "write", "csv"}
              ELSE IF id \in {1, 2} THEN {"read", "validation", "compute", "write"}
              ELSE {"read", "compute", "write"}
\* Variant: the two outputs of agent 6 are written together or not at all.
WrittenBeforeFinalCsv_none == {}
\* reallocate_portfolio calls write_json(output_path, output_data) and only then
\* _generate_final_csv, whose write_csv is the last statement that can raise.
WrittenBeforeFinalCsv == {K06}
AgentWritesOnRaise_validates_after_put(id, cause) ==
    IF id = 6 /\ cause = "csv" THEN {K06}
    ELSE IF cause = "validation" THEN {AgentOutput(id)}
    ELSE {}
AgentWritesOnRaise(id, cause) ==
    IF id = 6 /\ cause = "csv" THEN WrittenBeforeFinalCsv ELSE {}

\* Values handed around: an agent's output dict, its log summary, an error, the report.
NoValue == [kind |-> "none", agent |-> 0, by |-> 0]
AgentResult(id, r) == [kind |-> "result", agent |-> id, by |-> r]
_summarize_result(result) == [kind |-> "summary", agent |-> result.agent, by |-> result.by]
ErrorOf(id, r) == [kind |-> "error", agent |-> id, by |-> r]
FinalReport(r) == [kind |-> "report", agent |-> 0, by |-> r]

\* LegislativeImpactOrchestrator._log_execution_step
_log_execution_step(log, id, status, result) ==
    Append(log, [agent_id |-> id, status |-> status,
                 result_summary |-> IF status = "SUCCESS" THEN _summarize_result(result)
                                    ELSE result])

\* The record the history keeps of one started agent: the input snapshots it found
\* written by its own call, why it raised, the keys it put and which of them were
\* there already.
Started(id, s, w, r) ==
    [agent_id |-> id, state |-> "running",
     fresh |-> {k \in AgentReads(id) : k \in s /\ w[k] = r},
     cause |-> "none", puts |-> {}, overwrote |-> {}]
Finish(cs, state, cause, puts, s) ==
    [cs EXCEPT ![Len(cs)] = [@ EXCEPT !.state = state, !.cause = cause, !.puts = puts,
                                      !.overwrote = puts \cap s]]

\* ------------------------------------------------------------------ orchestrator
\* _execute_single_agent raises ValueError for an id that is no key of self.agents;
\* otherwise the agent raises on a failed read, or later for one of its other causes.
RaiseCauses(id, ok) ==
    IF id \notin AgentIds THEN {"not_found"}
    ELSE IF ~ok THEN {"read"}
    ELSE Causes(id) \ {"read"}

\* execute_full_pipeline up to the loop: _ensure_intermediate_outputs_folder puts the
\* marker (a failure is swallowed with a warning), results = {}.
execute_full_pipeline ==
    /\ pc = "idle"
    /\ run < MaxRuns
    /\ run' = run + 1
    /\ mode' = "full"
    /\ outcome' = "running"
    /\ ret' = NoValue
    /\ \E marker_ok \in BOOLEAN :
         /\ store' = IF marker_ok THEN write_json(store, marker_path) ELSE store
         /\ writer' = IF marker_ok THEN Stamp(writer, {marker_path}, run + 1) ELSE writer
    /\ results' = {}
    /\ agent_id' = 1
    /\ calls' = <<>>
    /\ log_before' = Len(execution_log)
    /\ pc' = "full_loop"
    /\ UNCHANGED not_orch
    /\ UNCHANGED <<execution_log, read_ok>>

\* for agent_id in range(1, 7): self._execute_single_agent(agent_id) is entered and
\* the agent reads its input snapshots.
full_call_agent ==
    /\ pc = "full_loop"
    /\ agent_id \in 1..6
    /\ calls' = Append(calls, Started(agent_id, store, writer, run))
    /\ \E ok \in BOOLEAN :
         /\ ok => AgentReads(agent_id) \subseteq store
         /\ read_ok' = ok
    /\ pc' = "full_agent"
    /\ UNCHANGED not_orch
    /\ UNCHANGED <<store, writer, execution_log, agent_id, results, run, mode, outcome,
                   ret, log_before>>

\* The agent wrote its output and returned: results[...] = result,
\* _log_execution_step(agent_id, "SUCCESS", result), next iteration.
full_agent_returns ==
    /\ pc = "full_agent"
    /\ read_ok
    /\ store' = store \cup AgentWrites(agent_id)
    /\ writer' = Stamp(writer, AgentWrites(agent_id), run)
    /\ results' = results \cup {agent_id}
    /\ execution_log' = _log_execution_step(execution_log, agent_id, "SUCCESS",
                                            AgentResult(agent_id, run))
    /\ calls' = Finish(calls, "returned", "none", AgentWrites(agent_id), store)
    /\ agent_id' = agent_id + 1
    /\ pc' = "full_loop"
    /\ UNCHANGED not_orch
    /\ UNCHANGED <<read_ok, run, mode, outcome, ret, log_before>>

\* Variant: a failed agent is skipped and the loop goes on with the next one.
full_agent_raises_skip ==
    /\ pc = "full_agent"
    /\ \E cause \in RaiseCauses(agent_id, read_ok) :
         /\ store' = store \cup AgentWritesOnRaise(agent_id, cause)
         /\ writer' = Stamp(writer, AgentWritesOnRaise(agent_id, cause), run)
         /\ calls' = Finish(calls, "raised", cause, AgentWritesOnRaise(agent_id, cause),
                            store)
    /\ agent_id' = agent_id + 1
    /\ pc' = "full_loop"
    /\ UNCHANGED not_orch
    /\ UNCHANGED <<execution_log, results, read_ok, run, mode, outcome, ret, log_before>>

\* Variant: a failed agent is retried.
full_agent_raises_retry ==
    /\ pc = "full_agent"
    /\ \E cause \in RaiseCauses(agent_id, read_ok) :
         /\ store' = store \cup AgentWritesOnRaise(agent_id, cause)
         /\ writer' = Stamp(writer, AgentWritesOnRaise(agent_id, cause), run)
         /\ calls' = Finish(calls, "raised", cause, AgentWritesOnRaise(agent_id, cause),
                            store)
    /\ pc' = "full_loop"
    /\ UNCHANGED not_orch
    /\ UNCHANGED <<execution_log, agent_id, results, read_ok, run, mode, outcome, ret,
                   log_before>>

\* The agent raised: the except clause of execute_full_pipeline logs to the logger
\* and re-raises; nothing is appended to execution_log.
full_agent_raises ==
    /\ pc = "full_agent"
    /\ \E cause \in RaiseCauses(agent_id, read_ok) :
         /\ store' = store \cup AgentWritesOnRaise(agent_id, cause)
         /\ writer' = Stamp(writer, AgentWritesOnRaise(agent_id, cause), run)
         /\ calls' = Finish(calls, "raised", cause, AgentWritesOnRaise(agent_id, cause),
                            store)
    /\ outcome' = "raised"
    /\ ret' = NoValue
    /\ pc' = "idle"
    /\ UNCHANGED not_orch
    /\ UNCHANGED <<execution_log, agent_id, results, read_ok, run, mode, log_before>>

\* After the loop: _generate_final_report builds the report and puts
\* execution_report.json; a failed put raises through execute_full_pipeline.
full_generate_final_report ==
    /\ pc = "full_loop"
    /\ agent_id = 7
    /\ \E put_ok \in BOOLEAN :
         IF put_ok
         THEN /\ store' = write_json(store, report_path)
              /\ writer' = Stamp(writer, {report_path}, run)
              /\ outcome' = "returned"
              /\ ret' = FinalReport(run)
         ELSE /\ UNCHANGED <<store, writer>>
              /\ outcome' = "raised"
              /\ ret' = NoValue
    /\ pc' = "idle"
    /\ UNCHANGED not_orch
    /\ UNCHANGED <<execution_log, agent_id, results, read_ok, run, mode, calls, log_before>>

\* execute_single_agent(id): _execute_single_agent(id) is entered; a known agent
\* starts and reads its input snapshots.
execute_single_agent(id) ==
    /\ pc = "idle"
    /\ run < MaxRuns
    /\ run' = run + 1
    /\ mode' = "single"
    /\ outcome' = "running"
    /\ ret' = NoValue
    /\ agent_id' = id
    /\ results' = {}
    /\ calls' = IF id \in AgentIds THEN <<Started(id, store, writer, run + 1)>> ELSE <<>>
    /\ \E ok \in BOOLEAN :
         /\ ok => (id \in AgentIds /\ AgentReads(id) \subseteq store)
         /\ read_ok' = ok
    /\ log_before' = Len(execution_log)
    /\ pc' = "single_agent"
    /\ UNCHANGED not_orch
    /\ UNCHANGED <<store, writer, execution_log>>

\* try: result = ...; _log_execution_step(agent_id, "SUCCESS", result); return result
single_agent_returns ==
    /\ pc = "single_agent"
    /\ read_ok
    /\ store' = store \cup AgentWrites(agent_id)
    /\ writer' = Stamp(writer, AgentWrites(agent_id), run)
    /\ execution_log' = _log_execution_step(execution_log, agent_id, "SUCCESS",
                                            AgentResult(agent_id, run))
    /\ calls' = Finish(calls, "returned", "none", AgentWrites(agent_id), store)
    /\ outcome' = "returned"
    /\ ret' = AgentResult(agent_id, run)
    /\ pc' = "idle"
    /\ UNCHANGED not_orch
    /\ UNCHANGED <<agent_id, results, read_ok, run, mode, log_before>>

\* Variant: the except clause re-raises without logging the failure.
single_agent_raises_nolog ==
    /\ pc = "single_agent"
    /\ \E cause \in RaiseCauses(agent_id, read_ok) :
         /\ store' = store \cup AgentWritesOnRaise(agent_id, cause)
         /\ writer' = Stamp(writer, AgentWritesOnRaise(agent_id, cause), run)
         /\ calls' = IF calls = <<>> THEN calls
                     ELSE Finish(calls, "raised", cause,
                                 AgentWritesOnRaise(agent_id, cause), store)
    /\ outcome' = "raised"
    /\ ret' = NoValue
    /\ pc' = "idle"
    /\ UNCHANGED not_orch
    /\ UNCHANGED <<execution_log, agent_id, results, read_ok, run, mode, log_before>>

\* except Exception as e: _log_execution_step(agent_id, "FAILED", {"error": str(e)}); raise
single_agent_raises ==
    /\ pc = "single_agent"
    /\ \E cause \in RaiseCauses(agent_id, read_ok) :
         /\ store' = store \cup AgentWritesOnRaise(agent_id, cause)
         /\ writer' = Stamp(writer, AgentWritesOnRaise(agent_id, cause), run)
         /\ calls' = IF calls = <<>> THEN calls
                     ELSE Finish(calls, "raised", cause,
                                 AgentWritesOnRaise(agent_id, cause), store)
    /\ execution_log' = _log_execution_step(execution_log, agent_id, "FAILED",
                                            ErrorOf(agent_id, run))
    /\ outcome' = "raised"
    /\ ret' = NoValue
    /\ pc' = "idle"
    /\ UNCHANGED not_orch
    /\ UNCHANGED <<agent_id, results, read_ok, run, mode, log_before>>

\* Ids a caller may pass to execute_single_agent: the six agents and two that are none.
CallableIds == 0..7

\* The bucket when the orchestrator is constructed: the portfolio CSV may be there,
\* and the snapshots of an earlier process may be.
InitStores == {P \cup S : P \in SUBSET {portfolio_file}, S \in {{}, Snapshots \cup {final_csv}}}

InitOrch ==
    /\ store \in InitStores
    /\ writer = [k \in Keys |-> 0]
    /\ execution_log = <<>>
    /\ pc = "idle"
    /\ agent_id = 0
    /\ results = {}
    /\ read_ok = FALSE
    /\ run = 0
    /\ mode = "none"
    /\ outcome = "none"
    /\ ret = NoValue
    /\ calls = <<>>
    /\ log_before = 0

\* The other components at rest.
IdleOrch ==
    /\ store = {}
    /\ writer = [k \in Keys |-> 0]
    /\ execution_log = <<>>
    /\ pc = "idle"
    /\ agent_id = 0
    /\ results = {}
    /\ read_ok = FALSE
    /\ run = 0
    /\ mode = "none"
    /\ outcome = "none"
    /\ ret = NoValue
    /\ calls = <<>>
    /\ log_before = 0

IdleClassifier ==
    /\ ticker = ""
    /\ ticker_sectors = <<>>
    /\ assigned_sector = ""
    /\ heuristic_used = FALSE

IdleAnalyzer ==
    /\ content = ""
    /\ law = [key_themes |-> <<>>, key_measures |-> <<>>]
    /\ sector_id = ""
    /\ impact_coefficient = 0
    /\ theme_score = 0

IdleModeler ==
    /\ coefficient = [sum |-> 0, count |-> 1]
    /\ market_cap = 0
    /\ monetary_impact = [state |-> "none"]

IdleQuantifier ==
    /\ timeline_years = 0
    /\ max_projection_years = 0
    /\ total_percent_change = 0
    /\ yearly_projections = <<>>

IdleReallocator ==
    reallocated_company = [state |-> "none"]

\* The two orchestrators that share a bucket, before they are started.
ConcurrentRuns == {1, 2}
NotStarted == [pc |-> "idle", agent_id |-> 0, read_ok |-> FALSE, outcome |-> "none",
               puts |-> {}, reput |-> {}, overwrote |-> {}, foreign |-> {}, stale |-> {}]
IdleConcurrent == runs = [p \in ConcurrentRuns |-> NotStarted]

IdleHandler ==
    /\ base_path = ""
    /\ objects = <<>>
    /\ written = <<>>
    /\ read_result = [state |-> "none"]

IdleReader ==
    /\ reader = ""
    /\ law_files = <<>>
    /\ listing_ok = FALSE
    /\ laws_data = [state |-> "none"]

IdleRetry ==
    /\ store_call = [stage |-> 0, method |-> "none"]
    /\ failures_ahead = 0
    /\ attempt_number = 0
    /\ call_outcome = "none"

IdleDataflow ==
    /\ portfolio_data = <<>>
    /\ laws_read = <<>>
    /\ execution_parameters = [min_impact_coefficient |-> 0, max_projection_years |-> 0]
    /\ stage = 0
    /\ sector_taxonomy = <<>>
    /\ laws_analyzed = <<>>
    /\ sector_flows = <<>>
    /\ sector_forecasts = <<>>
    /\ reallocated_companies = <<>>

IdleStrands ==
    /\ active_strands = <<>>
    /\ strand_pc = "idle"
    /\ analysis_result = [state |-> "none"]
    /\ analyses = 0

\* Every component but the one a specification is about is at rest.
IdleButOrch ==
    /\ IdleClassifier
    /\ IdleAnalyzer
    /\ IdleModeler
    /\ IdleQuantifier
    /\ IdleReallocator
    /\ IdleConcurrent
    /\ IdleHandler
    /\ IdleReader
    /\ IdleRetry
    /\ IdleDataflow
    /\ IdleStrands
IdleButClassifier ==
    /\ IdleOrch
    /\ IdleAnalyzer
    /\ IdleModeler
    /\ IdleQuantifier
    /\ IdleReallocator
    /\ IdleConcurrent
    /\ IdleHandler
    /\ IdleReader
    /\ IdleRetry
    /\ IdleDataflow
    /\ IdleStrands
IdleButAnalyzer ==
    /\ IdleOrch
    /\ IdleClassifier
    /\ IdleModeler
    /\ IdleQuantifier
    /\ IdleReallocator
    /\ IdleConcurrent
    /\ IdleHandler
    /\ IdleReader
    /\ IdleRetry
    /\ IdleDataflow
    /\ IdleStrands
IdleButModeler ==
    /\ IdleOrch
    /\ IdleClassifier
    /\ IdleAnalyzer
    /\ IdleQuantifier
    /\ IdleReallocator
    /\ IdleConcurrent
    /\ IdleHandler
    /\ IdleReader
    /\ IdleRetry
    /\ IdleDataflow
    /\ IdleStrands
IdleButQuantifier ==
    /\ IdleOrch
    /\ IdleClassifier
    /\ IdleAnalyzer
    /\ IdleModeler
    /\ IdleReallocator
    /\ IdleConcurrent
    /\ IdleHandler
    /\ IdleReader
    /\ IdleRetry
    /\ IdleDataflow
    /\ IdleStrands
IdleButReallocator ==
    /\ IdleOrch
    /\ IdleClassifier
    /\ IdleAnalyzer
    /\ IdleModeler
    /\ IdleQuantifier
    /\ IdleConcurrent
    /\ IdleHandler
    /\ IdleReader
    /\ IdleRetry
    /\ IdleDataflow
    /\ IdleStrands
IdleButConcurrent ==
    /\ IdleClassifier
    /\ IdleAnalyzer
    /\ IdleModeler
    /\ IdleQuantifier
    /\ IdleReallocator
    /\ IdleHandler
    /\ IdleReader
    /\ IdleRetry
    /\ IdleDataflow
    /\ IdleStrands
IdleButHandler ==
    /\ IdleOrch
    /\ IdleClassifier
    /\ IdleAnalyzer
    /\ IdleModeler
    /\ IdleQuantifier
    /\ IdleReallocator
    /\ IdleConcurrent
    /\ IdleReader
    /\ IdleRetry
    /\ IdleDataflow
    /\ IdleStrands
IdleButReader ==
    /\ IdleOrch
    /\ IdleClassifier
    /\ IdleAnalyzer
    /\ IdleModeler
    /\ IdleQuantifier
    /\ IdleReallocator
    /\ IdleConcurrent
    /\ IdleHandler
    /\ IdleRetry
    /\ IdleDataflow
    /\ IdleStrands
IdleButRetry ==
    /\ IdleOrch
    /\ IdleClassifier
    /\ IdleAnalyzer
    /\ IdleModeler
    /\ IdleQuantifier
    /\ IdleReallocator
    /\ IdleConcurrent
    /\ IdleHandler
    /\ IdleReader
    /\ IdleDataflow
    /\ IdleStrands
IdleButDataflow ==
    /\ IdleOrch
    /\ IdleClassifier
    /\ IdleAnalyzer
    /\ IdleModeler
    /\ IdleQuantifier
    /\ IdleReallocator
    /\ IdleConcurrent
    /\ IdleHandler
    /\ IdleReader
    /\ IdleRetry
    /\ IdleStrands
IdleButStrands ==
    /\ IdleOrch
    /\ IdleClassifier
    /\ IdleAnalyzer
    /\ IdleModeler
    /\ IdleQuantifier
    /\ IdleReallocator
    /\ IdleConcurrent
    /\ IdleHandler
    /\ IdleReader
    /\ IdleRetry
    /\ IdleDataflow

Init == InitOrch /\ IdleButOrch

Next ==
    \/ execute_full_pipeline
    \/ full_call_agent
    \/ full_agent_returns
    \/ full_agent_raises
    \/ full_generate_final_report
    \/ \E id \in CallableIds : execute_single_agent(id)
    \/ single_agent_returns
    \/ single_agent_raises

Spec == Init /\ [][Next]_vars

\* ------------------------------------------------------------------ sector classifier
\* ticker_sectors of _create_sector_taxonomy, in the dict's order.
StaticTickerSectors == <<
    [sector |-> "technology", tickers |-> <<
        "NVDA", "MSFT", "AAPL", "AMZN", "META", "AVGO", "GOOGL", "GOOG", "TSLA",
        "ORCL", "CRM", "IBM", "INTU", "NOW", "TXN", "ANET", "QCOM", "ACN", "AMAT",
        "ADBE", "MU", "LRCX", "KLAC", "ADI", "PANW", "SNPS", "CDNS", "DELL", "CRWD",
        "INTC", "PTC", "VRSN", "TYL", "TTD", "NTAP", "CDW", "ADSK", "WDAY", "NXPI",
        "FTNT", "AXON", "DDOG", "EPAM", "GDDY", "FFIV", "TRMB", "IT", "SMCI", "HPE",
        "HPQ", "CTSH", "AKAM", "PAYC", "CPAY", "KEYS", "MCHP", "ON", "SWKS", "TER",
        "ZBRA", "AMD", "CSCO", "ADP">>],
    [sector |-> "healthcare", tickers |-> <<
        "LLY", "UNH", "JNJ", "ABBV", "MRK", "TMO", "ABT", "ISRG", "AMGN", "BSX",
        "DHR", "GILD", "SYK", "PFE", "VRTX", "BMY", "MDT", "REGN", "HCA", "CVS",
        "CI", "HUM", "ELV", "BIIB", "ZTS", "DXCM", "IDXX", "IQV", "PODD", "LH",
        "VTRS", "BAX", "BDX", "RMD", "ALGN", "MRNA", "WAT", "INCY", "RVTY", "WBA",
        "DVA", "MOH", "HSIC", "CRL">>],
    [sector |-> "financial", tickers |-> <<
        "BRK,B", "JPM", "V", "MA", "WFC", "MS", "GS", "BLK", "SCHW", "C", "SPGI",
        "AXP", "COF", "BX", "KKR", "PNC", "AJG", "BK", "FI", "USB", "TFC", "CME",
        "ICE", "MCO", "NDAQ", "CBOE", "TRV", "PGR", "AFL", "ALL", "CB", "AON",
        "MMC", "AIG", "PRU", "MET", "AMP", "CINF", "WRB", "STT", "NTRS", "RF",
        "FITB", "HBAN", "KEY", "CFG", "MTB", "STZ", "RJF", "BRO", "TROW", "BEN",
        "IVZ", "BAC">>],
    [sector |-> "energy", tickers |-> <<
        "XOM", "CVX", "COP", "EOG", "SLB", "PSX", "MPC", "VLO", "OXY", "KMI", "WMB",
        "OKE", "TRGP", "BKR", "HAL", "DVN", "FANG", "EQT", "APA", "CTRA">>],
    [sector |-> "consumer_discretionary", tickers |-> <<
        "BKNG", "HD", "MCD", "NKE", "LOW", "TJX", "SBUX", "ABNB", "MAR", "RCL",
        "ORLY", "AZO", "YUM", "CMG", "ROST", "TGT", "DECK", "DPZ", "ULTA", "LULU",
        "BBY", "DRI", "DLTR", "GM", "F", "TSCO", "LVS", "WYNN", "MGM", "CCL",
        "NCLH", "HAS", "LUV", "UAL", "DAL", "EXPE", "APTV", "TPR", "RL", "CHRW",
        "EXPD", "KMX", "LKQ", "MHK", "WHR", "POOL">>],
    [sector |-> "industrials", tickers |-> <<
        "CAT", "RTX", "BA", "UNP", "DE", "HON", "APH", "LMT", "GD", "NOC", "MMM",
        "TDG", "ETN", "ITW", "EMR", "PH", "CARR", "CMI", "FDX", "UPS", "GWW",
        "FAST", "PWR", "ROK", "DOV", "SWK", "TXT", "ALLE", "JCI", "OTIS", "IR",
        "ODFL", "JBHT", "CHRW", "EXPD", "LDOS", "LHX", "HII", "TKO", "GNRC", "WSM",
        "BLDR", "PHM", "LEN", "DHI", "NVR", "TOL">>],
    [sector |-> "materials", tickers |-> <<
        "LIN", "APD", "SHW", "ECL", "FCX", "NEM", "VMC", "MLM", "NUE", "STLD",
        "DOW", "LYB", "CF", "MOS", "ALB", "IFF", "PKG", "AMCR", "WY", "IP", "PPG",
        "EMN", "BG", "BALL", "AVY">>],
    [sector |-> "real_estate", tickers |-> <<
        "PLD", "AMT", "CCI", "EQIX", "PSA", "EXR", "WELL", "DLR", "O", "VICI",
        "SPG", "AVB", "EQR", "VTR", "ESS", "MAA", "UDR", "CPT", "HST", "ARE",
        "INVH", "BXP", "KIM", "REG", "FRT">>],
    [sector |-> "telecommunications", tickers |-> <<
        "TMUS", "VZ", "T", "CHTR", "CMCSA", "NFLX", "DIS", "WBD", "FOXA", "FOX",
        "NWSA", "NWS", "SBAC", "TTWO", "EA", "LYV", "MTCH", "RVTY">>],
    [sector |-> "consumer_staples", tickers |-> <<
        "PG", "KO", "PEP", "COST", "WMT", "PM", "MO", "MDLZ", "CL", "KMB", "GIS",
        "K", "HSY", "MKC", "SJM", "CPB", "CAG", "KHC", "KDP", "CHD", "CLX", "TAP",
        "HRL", "TSN", "ADM", "BF,B", "STZ">>],
    [sector |-> "utilities", tickers |-> <<
        "NEE", "SO", "CEG", "DUK", "AEP", "EXC", "XEL", "PEG", "ED", "ETR", "WEC",
        "PPL", "D", "PCG", "SRE", "AEE", "CMS", "DTE", "EIX", "NI", "LNT", "EVRG",
        "CNP", "ATO", "NRG", "VST", "FE", "ES", "PNW", "AWK", "AES">>]
>>

\* ticker_sectors of TestSectorClassifier.test_sector_assignment.
TestTickerSectors == <<
    [sector |-> "technology", tickers |-> <<"AAPL", "MSFT">>],
    [sector |-> "financial", tickers |-> <<"JPM", "GS">>]
>>

\* `ticker in tickers` on a list.
InList(t, tickers) == \E i \in 1..Len(tickers) : tickers[i] = t

\* `pattern in ticker_upper` on strings.
Contains(str, pattern) ==
    \E i \in 1..(Len(str) - Len(pattern) + 1) : SubSeq(str, i, i + Len(pattern) - 1) = pattern

Lowercase == "abcdefghijklmnopqrstuvwxyz"
Uppercase == "ABCDEFGHIJKLMNOPQRSTUVWXYZ"
UpperChar(c) ==
    IF \E i \in 1..Len(Lowercase) : SubSeq(Lowercase, i, i) = c
    THEN LET i == CHOOSE j \in 1..Len(Lowercase) : SubSeq(Lowercase, j, j) = c
         IN SubSeq(Uppercase, i, i)
    ELSE c

\* str.upper()
RECURSIVE upper(_)
upper(str) ==
    IF Len(str) = 0 THEN ""
    ELSE UpperChar(SubSeq(str, 1, 1)) \o upper(SubSeq(str, 2, Len(str)))

tech_patterns == {"TECH", "SOFT", "DATA", "CYBER", "AI", "CLOUD"}
health_patterns == {"BIO", "PHARM", "MED", "HEALTH", "DRUG"}
finance_patterns == {"BANK", "FUND", "INVEST", "CAPITAL", "CREDIT"}
energy_patterns == {"OIL", "GAS", "ENERGY", "PETRO", "SOLAR"}

\* Variant: the patterns are looked for in the ticker as given, not upper-cased.
_classify_unknown_ticker_as_given(t) ==
    LET any(patterns) == \E pattern \in patterns : Contains(t, pattern)
    IN  IF any(tech_patterns) THEN "technology"
        ELSE IF any(health_patterns) THEN "healthcare"
        ELSE IF any(finance_patterns) THEN "financial"
        ELSE IF any(energy_patterns) THEN "energy"
        ELSE IF Len(t) <= 3 THEN "industrials"
        ELSE "consumer_discretionary"

\* SectorClassifier._classify_unknown_ticker
_classify_unknown_ticker(t) ==
    LET ticker_upper == upper(t)
        any(patterns) == \E pattern \in patterns : Contains(ticker_upper, pattern)
    IN  IF any(tech_patterns) THEN "technology"
        ELSE IF any(health_patterns) THEN "healthcare"
        ELSE IF any(finance_patterns) THEN "financial"
        ELSE IF any(energy_patterns) THEN "energy"
        ELSE IF Len(t) <= 3 THEN "industrials"
        ELSE "consumer_discretionary"

\* The for loop of _assign_sector_by_ticker from item i on: the index of the first
\* sector whose list holds the ticker, 0 when the loop ends without a return.
RECURSIVE FirstListed(_, _, _)
FirstListed(t, ts, i) ==
    IF i > Len(ts) THEN 0
    ELSE IF InList(t, ts[i].tickers) THEN i
    ELSE FirstListed(t, ts, i + 1)

\* SectorClassifier._assign_sector_by_ticker
_assign_sector_by_ticker(t, ts) ==
    LET i == FirstListed(t, ts, 1)
    IN  IF i > 0 THEN ts[i].sector ELSE _classify_unknown_ticker(t)

\* Tickers of the static lists, and tickers of none of them.
ListedTickers ==
    UNION {{StaticTickerSectors[i].tickers[j] : j \in 1..Len(StaticTickerSectors[i].tickers)} :
              i \in 1..Len(StaticTickerSectors)}
UnlistedTickers ==
    {"UNKNOWN", "", "XYZ", "ABCD", "BIOX", "biox", "AIX", "OILCO", "BANKX", "Solar",
     "DATAX", "MEDX", "Q"}
InputTickers == ListedTickers \cup UnlistedTickers
InputTickerSectors == {StaticTickerSectors, TestTickerSectors}

\* One classification: for company_data in portfolio_data['companies'] ...
\* assigned_sector = self._assign_sector_by_ticker(ticker, ticker_sectors)
assign_sector ==
    /\ assigned_sector = ""
    /\ assigned_sector' = _assign_sector_by_ticker(ticker, ticker_sectors)
    /\ heuristic_used' = (FirstListed(ticker, ticker_sectors, 1) = 0)
    /\ UNCHANGED <<ticker, ticker_sectors>>
    /\ UNCHANGED not_classifier

InitClassifier ==
    /\ ticker \in InputTickers
    /\ ticker_sectors \in InputTickerSectors
    /\ assigned_sector = ""
    /\ heuristic_used = FALSE
    /\ IdleButClassifier
NextClassifier == assign_sector
SpecClassifier == InitClassifier /\ [][NextClassifier]_vars

\* ------------------------------------------------------------------ legislative impact analyzer
\* Scores are kept in half units, since base_score * 0.5 makes them multiples of 0.5:
\* a score x of the code is the integer x * HalfUnits here.
HalfUnits == 2

Max(a, b) == IF a >= b THEN a ELSE b
Min(a, b) == IF a <= b THEN a ELSE b

\* theme_impacts of _calculate_impact_coefficient
theme_impacts == [
    environmental_regulation |->
        [energy |-> 9, materials |-> 8, industrials |-> 7, utilities |-> 8,
         consumer_discretionary |-> 4, technology |-> 3, consumer_staples |-> 2],
    financial_regulation |->
        [financial |-> 9, real_estate |-> 6, technology |-> 4,
         consumer_discretionary |-> 3, consumer_staples |-> 2],
    technology_regulation |->
        [technology |-> 9, telecommunications |-> 8, financial |-> 5,
         consumer_discretionary |-> 4, consumer_staples |-> 2],
    healthcare_regulation |->
        [healthcare |-> 9, consumer_staples |-> 2, technology |-> 3],
    taxation |->
        [financial |-> 7, technology |-> 6, healthcare |-> 5,
         energy |-> 6, industrials |-> 5, consumer_staples |-> 2],
    trade_regulation |->
        [industrials |-> 8, materials |-> 7, technology |-> 6,
         consumer_discretionary |-> 7, consumer_staples |-> 2]
]

\* measure_modifiers of _calculate_impact_coefficient
measure_modifiers == [
    tax_increase |-> -1,
    penalty |-> -1,
    restriction |-> -2,
    subsidy |-> 2,
    new_compliance |-> -1
]

\* for theme in law['key_themes']: ... base_score = max(base_score, ...), from item i on.
RECURSIVE ThemeLoop(_, _, _, _)
ThemeLoop(key_themes, sector, base_score, i) ==
    IF i > Len(key_themes) THEN base_score
    ELSE LET theme == key_themes[i]
             next == IF /\ theme \in DOMAIN theme_impacts
                        /\ sector \in DOMAIN theme_impacts[theme]
                     THEN Max(base_score, theme_impacts[theme][sector] * HalfUnits)
                     ELSE base_score
         IN ThemeLoop(key_themes, sector, next, i + 1)

\* for measure in law['key_measures']: ... base_score += measure_modifiers[measure]
RECURSIVE MeasureLoop(_, _, _)
MeasureLoop(key_measures, base_score, i) ==
    IF i > Len(key_measures) THEN base_score
    ELSE LET measure == key_measures[i]
             next == IF measure \in DOMAIN measure_modifiers
                     THEN base_score + measure_modifiers[measure] * HalfUnits
                     ELSE base_score
         IN MeasureLoop(key_measures, next, i + 1)

\* base_score after the theme loop (starts at 1).
BaseScoreOfThemes(l, sector) == ThemeLoop(l.key_themes, sector, 1 * HalfUnits, 1)

\* Variant: no reduction for consumer_staples.
ConsumerStaplesReduction_none(sector, base_score) == base_score

\* if sector_id == 'consumer_staples': base_score = max(1, base_score * 0.5)
ConsumerStaplesReduction(sector, base_score) ==
    IF sector = "consumer_staples"
    THEN Max(1 * HalfUnits, base_score \div 2)
    ELSE base_score

\* Variant: the result is capped at 10 but has no floor.
Clamp_no_floor(base_score) == Min(base_score, 10 * HalfUnits)

\* return max(1, min(base_score, 10))
Clamp(base_score) == Max(1 * HalfUnits, Min(base_score, 10 * HalfUnits))

\* base_score when the measure loop is done, before the clamp.
UnclampedScore(l, sector) ==
    MeasureLoop(l.key_measures,
                ConsumerStaplesReduction(sector, BaseScoreOfThemes(l, sector)), 1)

\* LegislativeImpactAnalyzer._calculate_impact_coefficient, in half units.
_calculate_impact_coefficient(l, sector) == Clamp(UnclampedScore(l, sector))

\* theme_keywords / measure_keywords of _extract_themes_and_measures, in dict order.
theme_names == <<"environmental_regulation", "financial_regulation", "technology_regulation",
                 "healthcare_regulation", "taxation", "trade_regulation">>
measure_names == <<"tax_increase", "new_compliance", "reporting_obligation", "penalty",
                   "subsidy", "restriction">>

\* The names whose keywords were found, in dict order: detected is the set of their indices.
RECURSIVE DetectedFrom(_, _, _)
DetectedFrom(names, detected, i) ==
    IF i > Len(names) THEN <<>>
    ELSE (IF i \in detected THEN <<names[i]>> ELSE <<>>) \o DetectedFrom(names, detected, i + 1)

\* return detected_themes or ["general_regulation"], detected_measures or ["compliance_requirement"]
OrDefault(detected, default) == IF detected = <<>> THEN <<default>> ELSE detected

\* LegislativeImpactAnalyzer._get_fallback_laws
FallbackLaw == [key_themes |-> <<"environmental_regulation">>,
                key_measures |-> <<"carbon_tax", "emission_limits">>]

\* Every law _read_laws can hand to _analyze_single_law.
Laws ==
    {[key_themes |-> OrDefault(DetectedFrom(theme_names, T, 1), "general_regulation"),
      key_measures |-> OrDefault(DetectedFrom(measure_names, M, 1), "compliance_requirement")] :
        T \in SUBSET (1..Len(theme_names)), M \in SUBSET (1..Len(measure_names))}
    \cup {FallbackLaw}

\* The sector ids stage 2 can produce.
Sectors == {StaticTickerSectors[i].sector : i \in 1..Len(StaticTickerSectors)}

\* impact_coefficient = self._calculate_impact_coefficient(law, sector)
calculate_impact_coefficient ==
    /\ law.key_themes # <<>>
    /\ impact_coefficient = 0
    /\ theme_score' = BaseScoreOfThemes(law, sector_id)
    /\ impact_coefficient' = _calculate_impact_coefficient(law, sector_id)
    /\ UNCHANGED <<content, law, sector_id>>
    /\ UNCHANGED not_analyzer

InitAnalyzer ==
    /\ content = ""
    /\ law \in Laws
    /\ sector_id \in Sectors
    /\ impact_coefficient = 0
    /\ theme_score = 0
    /\ IdleButAnalyzer
NextAnalyzer == calculate_impact_coefficient
SpecAnalyzer == InitAnalyzer /\ [][NextAnalyzer]_vars

\* ---- theme and measure detection on the text of a law
LowerChar(c) ==
    IF \E i \in 1..Len(Uppercase) : SubSeq(Uppercase, i, i) = c
    THEN LET i == CHOOSE j \in 1..Len(Uppercase) : SubSeq(Uppercase, j, j) = c
         IN SubSeq(Lowercase, i, i)
    ELSE c

\* str.lower()
RECURSIVE lower(_)
lower(str) ==
    IF Len(str) = 0 THEN ""
    ELSE LowerChar(SubSeq(str, 1, 1)) \o lower(SubSeq(str, 2, Len(str)))

\* theme_keywords, in the order of theme_names
theme_keywords == <<
    {"environment", "carbon", "emission", "climate", "green", "renewable"},
    {"bank", "financial", "credit", "investment", "capital", "risk"},
    {"data", "privacy", "digital", "technology", "artificial intelligence", "ai"},
    {"health", "medical", "pharmaceutical", "drug", "patient"},
    {"tax", "fiscal", "revenue", "levy", "duty"},
    {"trade", "import", "export", "tariff", "commerce"} >>

measure_keywords_carbon_tax == <<
    {"increase tax", "higher tax", "tax rate", "carbon tax"},
    {"compliance", "requirement", "must comply"},
    {"report", "disclosure", "publish"},
    {"penalty", "fine", "sanction"},
    {"subsidy", "incentive", "support"},
    {"restrict", "prohibit", "ban", "limit"} >>
\* measure_keywords, in the order of measure_names
measure_keywords == <<
    {"increase tax", "higher tax", "tax rate"},
    {"compliance", "requirement", "must comply"},
    {"report", "disclosure", "publish"},
    {"penalty", "fine", "sanction"},
    {"subsidy", "incentive", "support"},
    {"restrict", "prohibit", "ban", "limit"} >>

\* any(keyword in content_lower for keyword in keywords), for each entry of the dict
Detected(keywords, content_lower) ==
    {i \in 1..Len(keywords) : \E keyword \in keywords[i] : Contains(content_lower, keyword)}

\* LegislativeImpactAnalyzer._extract_themes_and_measures: the themes and measures a
\* law_data gets
_extract_themes_and_measures(text) ==
    [key_themes |->
        OrDefault(DetectedFrom(theme_names, Detected(theme_keywords, lower(text)), 1),
                  "general_regulation"),
     key_measures |->
        OrDefault(DetectedFrom(measure_names, Detected(measure_keywords, lower(text)), 1),
                  "compliance_requirement")]

\* Law files: sentences put together from these parts.
TextOpenings == {"", "Bank levy act: "}
TextSubjects == {"A carbon tax", "A CARBON TAX", "A tax on imports", "An aid scheme"}
TextLinks == {" with a ", " at a higher tax rate, with a subsidy and a "}
TextDuties == {"compliance obligation", "Compliance Obligation", "duty to publish"}
TextEndings == {".", "; a penalty and a ban apply."}
InputTexts ==
    {o \o sb \o l \o d \o e :
        o \in TextOpenings, sb \in TextSubjects, l \in TextLinks, d \in TextDuties,
        e \in TextEndings}

\* themes, measures = self._extract_themes_and_measures(content), in _read_laws
read_law ==
    /\ content # ""
    /\ law.key_themes = <<>>
    /\ law' = _extract_themes_and_measures(content)
    /\ UNCHANGED <<content, sector_id, impact_coefficient, theme_score>>
    /\ UNCHANGED not_analyzer

InitLawText ==
    /\ content \in InputTexts
    /\ law = [key_themes |-> <<>>, key_measures |-> <<>>]
    /\ sector_id \in Sectors
    /\ impact_coefficient = 0
    /\ theme_score = 0
    /\ IdleButAnalyzer
NextLawText ==
    \/ read_law
    \/ calculate_impact_coefficient
SpecLawText == InitLawText /\ [][NextLawText]_vars

\* ------------------------------------------------------------------ monetary flow modeler
\* A net coefficient is the mean sum(coefficients) / len(coefficients) of a sector's
\* coefficients: it is kept as the pair (sum in half units, count), and compared with a
\* threshold x as sum >= x * HalfUnits * count.
AtLeast(c, x) == c.sum >= x * HalfUnits * c.count
AtMost(c, x) == c.sum <= x * HalfUnits * c.count

\* Rates are kept in thousandths: 0.15 is 150.
RateVeryPositive == 150
RatePositive == 80
RateVeryNegative == -200
RateNegative == -120
RateNeutral == 20

\* Variant: the test `coefficient <= 4` comes before the test `coefficient <= 2`.
impact_rate_of_swapped(c) ==
    IF AtLeast(c, 8) THEN RateVeryPositive
    ELSE IF AtLeast(c, 6) THEN RatePositive
    ELSE IF AtMost(c, 4) THEN RateNegative
    ELSE IF AtMost(c, 2) THEN RateVeryNegative
    ELSE RateNeutral

\* The if/elif chain of _calculate_monetary_impact.
impact_rate_of(c) ==
    IF AtLeast(c, 8) THEN RateVeryPositive
    ELSE IF AtLeast(c, 6) THEN RatePositive
    ELSE IF AtMost(c, 2) THEN RateVeryNegative
    ELSE IF AtMost(c, 4) THEN RateNegative
    ELSE RateNeutral

\* MonetaryFlowModeler._calculate_monetary_impact; amounts in thousandths of a dollar.
_calculate_monetary_impact(cap, c) ==
    LET capital_change == cap * impact_rate_of(c)
    IN  [impact_rate |-> impact_rate_of(c),
         capital_inflow |-> Max(0, capital_change),
         capital_outflow |-> Max(0, 0 - capital_change),
         net_change |-> capital_change]

\* MonetaryFlowModeler._determine_impact_direction
_determine_impact_direction(c) ==
    IF AtLeast(c, 6) THEN "growth"
    ELSE IF AtMost(c, 4) THEN "decline"
    ELSE "stagnation"

\* Number of laws whose impacts on one sector are averaged.
MaxLaws == 3

\* The net coefficients _model_sector_flows can compute: the mean of 1..MaxLaws
\* coefficients, each in [1, 10] in half units, or 0 for a sector without impact.
NetCoefficients ==
    {[sum |-> sm, count |-> n] :
        n \in 1..MaxLaws, sm \in (1 * HalfUnits)..(10 * HalfUnits * MaxLaws)}
InputCoefficients ==
    {c \in NetCoefficients : AtLeast(c, 1) /\ AtMost(c, 10)} \cup {[sum |-> 0, count |-> 1]}

\* Sector market caps (total_market_cap of a sector), in dollars.
InputMarketCaps == {0, 1000, 52000}

\* monetary_impact = self._calculate_monetary_impact(current_market_cap, net_impact_coefficient, sectors)
calculate_monetary_impact ==
    /\ monetary_impact.state = "none"
    /\ monetary_impact' = [state |-> "computed"] @@ _calculate_monetary_impact(market_cap, coefficient)
    /\ UNCHANGED <<coefficient, market_cap>>
    /\ UNCHANGED not_modeler

InitModeler ==
    /\ coefficient \in InputCoefficients
    /\ market_cap \in InputMarketCaps
    /\ monetary_impact = [state |-> "none"]
    /\ IdleButModeler
NextModeler == calculate_monetary_impact
SpecModeler == InitModeler /\ [][NextModeler]_vars

\* ------------------------------------------------------------------ sector impact quantifier
\* Percentages and the S-curve factor are fixed-point numbers: one unit is 1 / FixedOne.
FixedOne == 10000

\* ln(2.718) in fixed point: pow(2.718, x) is exp(x * ln 2.718).
LnBase == 9999

\* Terms of the exponential series that are summed; the exponents are within [-2.5, 2.5].
SeriesTerms == 20

RECURSIVE ExpSeries(_, _, _)
\* sum of x^k / k! for k >= n, given term = x^(n-1) / (n-1)!
ExpSeries(x, term, n) ==
    IF n > SeriesTerms THEN term
    ELSE term + ExpSeries(x, (term * x) \div (n * FixedOne), n + 1)

\* pow(2.718, x) of line 94, x and the result in fixed point
pow_base(x) == ExpSeries((x * LnBase) \div FixedOne, FixedOne, 1)

s_curve_factor_less_steep(progress_ratio) ==
    (FixedOne * FixedOne) \div (FixedOne + pow_base((0 - 4) * (progress_ratio - FixedOne \div 2)))
\* 1 / (1 + pow(2.718, -5 * (progress_ratio - 0.5)))
s_curve_factor(progress_ratio) ==
    (FixedOne * FixedOne) \div (FixedOne + pow_base((0 - 5) * (progress_ratio - FixedOne \div 2)))

\* progress_ratio = year / timeline_years, at most 1
progress_ratio_of(year, timeline) ==
    LET ratio == (year * FixedOne) \div timeline
    IN  IF ratio > FixedOne THEN FixedOne ELSE ratio

\* cumulative_change = total_percent_change * s_curve_factor
cumulative_change_of(total, year, timeline) ==
    total * s_curve_factor(progress_ratio_of(year, timeline))

prev_cumulative_linear(total, year, timeline) ==
    total * (((year - 1) * FixedOne) \div timeline)
\* prev_cumulative = total_percent_change * (1 / (1 + pow(2.718, -5 * ((year-1)/timeline_years - 0.5))))
prev_cumulative(total, year, timeline) ==
    total * s_curve_factor(((year - 1) * FixedOne) \div timeline)

\* yoy_change of one year, before the volatility is added
yoy_change_of(total, year, timeline) ==
    IF year = 1 THEN cumulative_change_of(total, year, timeline)
    ELSE cumulative_change_of(total, year, timeline) - prev_cumulative(total, year, timeline)

\* Largest max_projection_years of a configuration.
MaxProjectionYears == 4

\* timelines.get(impact_direction, 3)
Timelines == {3, 2, 1}

\* Values random.uniform(-3, 3) can return, in percent.
VolatilityFactors == {0 - 3, 0, 1, 3}

\* One dictionary of the list _generate_yearly_projections returns.
projection_of(total, year, timeline, volatility_factor) ==
    [year |-> year,
     year_over_year_change_percent |->
        yoy_change_of(total, year, timeline) + volatility_factor * FixedOne,
     cumulative_change_percent |-> cumulative_change_of(total, year, timeline),
     volatility_adjustment_percent |-> volatility_factor * FixedOne]

\* SectorImpactQuantifier._generate_yearly_projections; volatility[year] is the draw of that year
_generate_yearly_projections(total, timeline, max_years, volatility) ==
    [year \in 1..Min(timeline, max_years) |->
        projection_of(total, year, timeline, volatility[year])]

\* total_percent_change of a sector: its impact rate in percent, or 0 without market cap.
InputPercentChanges ==
    {r \div 10 : r \in {RateVeryPositive, RatePositive, RateNeutral, RateNegative,
                        RateVeryNegative}} \cup {0}

\* yearly_projections = self._generate_yearly_projections(baseline_market_cap, total_percent_change, absorption_timeline)
generate_yearly_projections ==
    /\ timeline_years > 0
    /\ yearly_projections = <<>>
    /\ max_projection_years > 0
    /\ \E volatility \in [1..Min(timeline_years, max_projection_years) -> VolatilityFactors] :
          yearly_projections' =
              _generate_yearly_projections(total_percent_change, timeline_years,
                                           max_projection_years, volatility)
    /\ UNCHANGED <<timeline_years, max_projection_years, total_percent_change>>
    /\ UNCHANGED not_quantifier

InitQuantifier ==
    /\ timeline_years \in Timelines
    /\ max_projection_years \in 0..MaxProjectionYears
    /\ total_percent_change \in InputPercentChanges
    /\ yearly_projections = <<>>
    /\ IdleButQuantifier
NextQuantifier == generate_yearly_projections
SpecQuantifier == InitQuantifier /\ [][NextQuantifier]_vars

\* ------------------------------------------------------------------ portfolio reallocator
\* A sector_weight_percent w is kept as the integer w * WeightUnits; weight factors are
\* fixed-point numbers (FixedOne is 1.0).
WeightUnits == 2

\* 0.6 + (sector_weight_percent / 5) * 0.2
LowWeightFactor(w) ==
    (6 * FixedOne) \div 10 + (w * ((2 * FixedOne) \div 10)) \div (5 * WeightUnits)

\* 0.8 + ((sector_weight_percent - 5) / 10) * 0.4
MidWeightFactor(w) ==
    (8 * FixedOne) \div 10 + ((w - 5 * WeightUnits) * ((4 * FixedOne) \div 10)) \div (10 * WeightUnits)

HighWeightFactor_unclamped(w) ==
    (12 * FixedOne) \div 10 + ((w - 15 * WeightUnits) * ((3 * FixedOne) \div 10)) \div (20 * WeightUnits)
\* min(1.5, 1.2 + ((sector_weight_percent - 15) / 20) * 0.3)
HighWeightFactor(w) ==
    Min((15 * FixedOne) \div 10,
        (12 * FixedOne) \div 10 + ((w - 15 * WeightUnits) * ((3 * FixedOne) \div 10)) \div (20 * WeightUnits))

\* PortfolioReallocator._calculate_weight_factor
_calculate_weight_factor(w) ==
    IF w <= 5 * WeightUnits THEN LowWeightFactor(w)
    ELSE IF w <= 15 * WeightUnits THEN MidWeightFactor(w)
    ELSE HighWeightFactor(w)

applied_impact_percent_unweighted(base_sector_impact, weight_factor) ==
    base_sector_impact * FixedOne
\* applied_impact_percent = base_sector_impact * weight_factor
applied_impact_percent_of(base_sector_impact, weight_factor) ==
    base_sector_impact * weight_factor

\* PortfolioReallocator._reallocate_single_company, for a company whose sector_info has
\* the given sector_weight_percent; has_forecast is `sector_id in sector_impact_map` and
\* total is that forecast's total_percent_change.
_reallocate_single_company(w, has_forecast, total) ==
    IF has_forecast
    THEN [state |-> "reallocated",
          sector_weight_percent |-> w,
          has_forecast |-> TRUE,
          base_sector_impact |-> total,
          weight_factor |-> _calculate_weight_factor(w),
          applied_sector_impact_percent |->
              applied_impact_percent_of(total, _calculate_weight_factor(w))]
    ELSE [state |-> "reallocated",
          sector_weight_percent |-> w,
          has_forecast |-> FALSE,
          base_sector_impact |-> 0,
          weight_factor |-> 0,
          applied_sector_impact_percent |-> 0]

\* sector_weight_percent of a company: its share of its sector's market cap, 0 to 100.
InputWeights == 0..(100 * WeightUnits)

\* total_percent_change of the forecasts the reallocator reads.
InputForecastChanges == {RatePositive \div 10, RateVeryNegative \div 10}

\* One turn of the loop of reallocate_portfolio over portfolio_data['companies'].
reallocate_single_company ==
    /\ \E w \in InputWeights, has_forecast \in BOOLEAN, total \in InputForecastChanges :
          /\ has_forecast \/ total = RatePositive \div 10
          /\ reallocated_company' = _reallocate_single_company(w, has_forecast, total)
    /\ UNCHANGED not_reallocator

InitReallocator ==
    /\ reallocated_company = [state |-> "none"]
    /\ IdleButReallocator
NextReallocator == reallocate_single_company
SpecReallocator == InitReallocator /\ [][NextReallocator]_vars

\* ------------------------------------------------------------------ two concurrent runs
\* Two orchestrators with the same configuration run execute_full_pipeline against the
\* same bucket (store, writer); writer[k] is the run that last put k. Each keeps, as
\* history, the keys it put, those it put twice, those it put over the other run's
\* object, and the snapshots its stages read that the other run (foreign) or an earlier
\* process (stale) had written.
OtherRun(p) == CHOOSE q \in ConcurrentRuns : q # p

\* execute_full_pipeline up to the loop, by run p
concurrent_execute_full_pipeline(p) ==
    /\ runs[p].pc = "idle"
    /\ \E marker_ok \in BOOLEAN :
         /\ store' = IF marker_ok THEN write_json(store, marker_path) ELSE store
         /\ writer' = IF marker_ok THEN Stamp(writer, {marker_path}, p) ELSE writer
    /\ runs' = [runs EXCEPT ![p] = [@ EXCEPT !.pc = "full_loop", !.agent_id = 1,
                                              !.outcome = "running"]]
    /\ UNCHANGED orch_local
    /\ UNCHANGED not_concurrent

\* run p enters its next agent, which reads its input snapshots
concurrent_call_agent(p) ==
    /\ runs[p].pc = "full_loop"
    /\ runs[p].agent_id \in 1..6
    /\ \E ok \in BOOLEAN :
         /\ ok => AgentReads(runs[p].agent_id) \subseteq store
         /\ LET read == IF ok THEN AgentReads(runs[p].agent_id) \cap Snapshots ELSE {}
            IN  runs' = [runs EXCEPT ![p] =
                    [@ EXCEPT !.pc = "full_agent", !.read_ok = ok,
                              !.foreign = @ \cup {k \in read : writer[k] = OtherRun(p)},
                              !.stale = @ \cup {k \in read : writer[k] = 0}]]
    /\ UNCHANGED <<store, writer>>
    /\ UNCHANGED orch_local
    /\ UNCHANGED not_concurrent

\* What run p remembers of putting the keys `put`.
AfterPut(r, p, put, s, w) ==
    [r EXCEPT !.puts = @ \cup put,
              !.reput = @ \cup (put \cap r.puts),
              !.overwrote = @ \cup {k \in put : k \in s /\ w[k] = OtherRun(p)}]

concurrent_agent_returns_without_put(p) ==
    /\ runs[p].pc = "full_agent"
    /\ runs[p].read_ok
    /\ UNCHANGED <<store, writer>>
    /\ runs' = [runs EXCEPT ![p] =
                   [@ EXCEPT !.pc = "full_loop", !.agent_id = @ + 1]]
    /\ UNCHANGED orch_local
    /\ UNCHANGED not_concurrent
\* the agent of run p wrote its output and returned
concurrent_agent_returns(p) ==
    /\ runs[p].pc = "full_agent"
    /\ runs[p].read_ok
    /\ store' = store \cup AgentWrites(runs[p].agent_id)
    /\ writer' = Stamp(writer, AgentWrites(runs[p].agent_id), p)
    /\ runs' = [runs EXCEPT ![p] =
                   [AfterPut(@, p, AgentWrites(runs[p].agent_id), store, writer)
                       EXCEPT !.pc = "full_loop", !.agent_id = @ + 1]]
    /\ UNCHANGED orch_local
    /\ UNCHANGED not_concurrent

\* the agent of run p raised: execute_full_pipeline re-raises
concurrent_agent_raises(p) ==
    /\ runs[p].pc = "full_agent"
    /\ \E cause \in RaiseCauses(runs[p].agent_id, runs[p].read_ok) :
         /\ store' = store \cup AgentWritesOnRaise(runs[p].agent_id, cause)
         /\ writer' = Stamp(writer, AgentWritesOnRaise(runs[p].agent_id, cause), p)
         /\ runs' = [runs EXCEPT ![p] =
                        [AfterPut(@, p, AgentWritesOnRaise(runs[p].agent_id, cause),
                                  store, writer)
                            EXCEPT !.pc = "done", !.outcome = "raised"]]
    /\ UNCHANGED orch_local
    /\ UNCHANGED not_concurrent

\* _generate_final_report of run p
concurrent_generate_final_report(p) ==
    /\ runs[p].pc = "full_loop"
    /\ runs[p].agent_id = 7
    /\ \E put_ok \in BOOLEAN :
         IF put_ok
         THEN /\ store' = write_json(store, report_path)
              /\ writer' = Stamp(writer, {report_path}, p)
              /\ runs' = [runs EXCEPT ![p] =
                             [AfterPut(@, p, {report_path}, store, writer)
                                 EXCEPT !.pc = "done", !.outcome = "returned"]]
         ELSE /\ UNCHANGED <<store, writer>>
              /\ runs' = [runs EXCEPT ![p] = [@ EXCEPT !.pc = "done", !.outcome = "raised"]]
    /\ UNCHANGED orch_local
    /\ UNCHANGED not_concurrent

InitConcurrent ==
    /\ InitOrch
    /\ IdleConcurrent
    /\ IdleButConcurrent
NextConcurrent ==
    \/ \E p \in ConcurrentRuns : concurrent_execute_full_pipeline(p)
    \/ \E p \in ConcurrentRuns : concurrent_call_agent(p)
    \/ \E p \in ConcurrentRuns : concurrent_agent_returns(p)
    \/ \E p \in ConcurrentRuns : concurrent_agent_raises(p)
    \/ \E p \in ConcurrentRuns : concurrent_generate_final_report(p)
SpecConcurrent == InitConcurrent /\ [][NextConcurrent]_vars

\* ------------------------------------------------------------------ S3Handler
\* A Python value and a JSON value have the same shape here: a tag t, a string s, a
\* number n and a sequence of items. Python tags: "str", "int", "float", "none", "list",
\* "tuple", "dict" (items are "pair"s of a key and a value). JSON tags: "string",
\* "integer" (digits only), "real" (with a decimal point), "null", "array", "object"
\* (items are "member"s of a name and a value).
Value(t, s_, n, items) == [t |-> t, s |-> s_, n |-> n, items |-> items]
PyStr(s_) == Value("str", s_, 0, <<>>)
PyInt(n) == Value("int", "", n, <<>>)
PyFloat(n) == Value("float", "", n, <<>>)
PyNone == Value("none", "", 0, <<>>)
PyList(items) == Value("list", "", 0, items)
PyTuple(items) == Value("tuple", "", 0, items)
PyPair(key, val) == Value("pair", "", 0, <<key, val>>)
PyDict(pairs) == Value("dict", "", 0, pairs)

\* json.dumps(data, indent=2): lists and tuples both become arrays, the keys of a dict
\* become strings.
RECURSIVE json_dumps(_)
json_dumps(data) ==
    CASE data.t = "str" -> Value("string", data.s, 0, <<>>)
      [] data.t = "int" -> Value("integer", "", data.n, <<>>)
      [] data.t = "float" -> Value("real", "", data.n, <<>>)
      [] data.t = "none" -> Value("null", "", 0, <<>>)
      [] data.t \in {"list", "tuple"} ->
            Value("array", "", 0, [i \in 1..Len(data.items) |-> json_dumps(data.items[i])])
      [] data.t = "dict" ->
            Value("object", "", 0, [i \in 1..Len(data.items) |-> json_dumps(data.items[i])])
      [] data.t = "pair" ->
            Value("member", "", 0,
                  << Value("string",
                           IF data.items[1].t = "str" THEN data.items[1].s
                           ELSE ToString(data.items[1].n), 0, <<>>),
                     json_dumps(data.items[2]) >>)

\* json.loads(body): arrays become lists, objects become dicts with str keys.
RECURSIVE json_loads(_)
json_loads(body) ==
    CASE body.t = "string" -> PyStr(body.s)
      [] body.t = "integer" -> PyInt(body.n)
      [] body.t = "real" -> PyFloat(body.n)
      [] body.t = "null" -> PyNone
      [] body.t = "array" ->
            PyList([i \in 1..Len(body.items) |-> json_loads(body.items[i])])
      [] body.t = "object" ->
            PyDict([i \in 1..Len(body.items) |-> json_loads(body.items[i])])
      [] body.t = "member" ->
            PyPair(json_loads(body.items[1]), json_loads(body.items[2]))

\* base_path.rstrip('/')
RECURSIVE rstrip_slash(_)
rstrip_slash(str) ==
    IF Len(str) > 0 /\ SubSeq(str, Len(str), Len(str)) = "/"
    THEN rstrip_slash(SubSeq(str, 1, Len(str) - 1))
    ELSE str

\* full_key = f"{self.base_path}/{key}" if self.base_path else key
full_key(base, key) == IF base # "" THEN base \o "/" \o key ELSE key

\* s3_base_path values of a configuration, and the keys the stages use.
ConfiguredBasePaths == {"", "polyfinance", "polyfinance/"}
HandlerKeys == {marker_path, K01}
BucketKeys == HandlerKeys \cup {full_key(rstrip_slash(b), k) : b \in ConfiguredBasePaths, k \in HandlerKeys}

\* Data of the kinds the stages hand to write_json: the marker of the orchestrator, the
\* portfolio of stage 1 (safe_float gives the int 0 for an empty cell), a forecast of stage 5.
MarkerData == PyDict(<< PyPair(PyStr("created"), PyStr("2025-08-15T10:00:00")) >>)
PortfolioData ==
    PyDict(<< PyPair(PyStr("extraction_date"), PyStr("2025-08-15")),
              PyPair(PyStr("total_companies"), PyInt(2)),
              PyPair(PyStr("companies"),
                     PyList(<< PyDict(<< PyPair(PyStr("ticker"), PyStr("AAPL")),
                                         PyPair(PyStr("weight_percent"), PyFloat(7)),
                                         PyPair(PyStr("market_cap"), PyFloat(3000)) >>),
                               PyDict(<< PyPair(PyStr("ticker"), PyStr("XOM")),
                                         PyPair(PyStr("weight_percent"), PyInt(0)),
                                         PyPair(PyStr("market_cap"), PyFloat(400)) >>) >>)) >>)
ForecastData ==
    PyDict(<< PyPair(PyStr("sector_forecasts"),
                     PyList(<< PyDict(<< PyPair(PyStr("sector_id"), PyStr("energy")),
                                         PyPair(PyStr("total_percent_change"),
                                                PyFloat(RateVeryNegative \div 10)),
                                         PyPair(PyStr("yearly_projections"), PyList(<<>>))
                                      >>) >>)) >>)
SnapshotData == {MarkerData, PortfolioData}
\* What another writer on the bucket puts.
OtherData == {ForecastData}

\* No object under a key; no data written through the handler.
Absent == Value("absent", "", 0, <<>>)
NoData == Value("nodata", "", 0, <<>>)

\* S3Handler.write_json(key, data); put_ok is put_object succeeding within the retries.
S3Handler_write_json(key, data) ==
    /\ \E put_ok \in BOOLEAN :
          IF put_ok
          THEN /\ objects' = [objects EXCEPT ![full_key(base_path, key)] = json_dumps(data)]
               /\ written' = [written EXCEPT ![key] = data]
          ELSE UNCHANGED <<objects, written>>
    /\ UNCHANGED <<base_path, read_result>>
    /\ UNCHANGED not_handler

S3Handler_read_json_bare_key(key) ==
    /\ \E get_ok \in BOOLEAN :
          read_result' =
              IF get_ok /\ objects[key] # Absent
              THEN [state |-> "returned", key |-> key, expected |-> written[key],
                    data |-> json_loads(objects[key])]
              ELSE [state |-> "raised", key |-> key, expected |-> written[key],
                    data |-> IF get_ok THEN Absent ELSE NoData]
    /\ UNCHANGED <<base_path, objects, written>>
    /\ UNCHANGED not_handler
\* S3Handler.read_json(key); get_ok is get_object answering within the retries. A raise
\* keeps in `data` whether the key was missing (Absent) or the call failed (NoData).
S3Handler_read_json(key) ==
    /\ \E get_ok \in BOOLEAN :
          read_result' =
              IF get_ok /\ objects[full_key(base_path, key)] # Absent
              THEN [state |-> "returned", key |-> key, expected |-> written[key],
                    data |-> json_loads(objects[full_key(base_path, key)])]
              ELSE [state |-> "raised", key |-> key, expected |-> written[key],
                    data |-> IF get_ok THEN Absent ELSE NoData]
    /\ UNCHANGED <<base_path, objects, written>>
    /\ UNCHANGED not_handler

\* Another writer on the bucket puts an object under a full key.
other_writer_puts(bucket_key, data) ==
    /\ objects' = [objects EXCEPT ![bucket_key] = json_dumps(data)]
    /\ written' = [k \in HandlerKeys |->
                      IF full_key(base_path, k) = bucket_key THEN NoData ELSE written[k]]
    /\ UNCHANGED <<base_path, read_result>>
    /\ UNCHANGED not_handler

InitHandler ==
    /\ base_path \in {rstrip_slash(b) : b \in ConfiguredBasePaths}
    /\ objects = [k \in BucketKeys |-> Absent]
    /\ written = [k \in HandlerKeys |-> NoData]
    /\ read_result = [state |-> "none"]
    /\ IdleButHandler
NextHandler ==
    \/ \E key \in HandlerKeys, data \in SnapshotData : S3Handler_write_json(key, data)
    \/ \E key \in HandlerKeys : S3Handler_read_json(key)
    \/ \E bucket_key \in BucketKeys, data \in OtherData : other_writer_puts(bucket_key, data)
SpecHandler == InitHandler /\ [][NextHandler]_vars

\* ------------------------------------------------------------------ reading the law files
\* A law file is its key in the bucket and whether get_object and the decoding of its
\* body succeed. Stage 3 (_read_laws) and the S3 law analyzer (_fetch_laws_from_s3) both
\* list the laws folder and read the files one by one.
endswith(str, suffix) ==
    Len(str) >= Len(suffix) /\ SubSeq(str, Len(str) - Len(suffix) + 1, Len(str)) = suffix

\* file_key.endswith(('.txt', '.html', '.xml'))
accepted_extension(file_key) ==
    \E suffix \in {".txt", ".html", ".xml"} : endswith(file_key, suffix)

\* What each reader takes from the listing: stage 3 the accepted extensions, the S3 law
\* analyzer everything but folder keys.
Takes(who, file_key) ==
    IF who = "stage3" THEN accepted_extension(file_key) ELSE ~endswith(file_key, "/")

\* The loop over the listing from file i on: the keys of the laws appended, and the
\* number of files skipped with a warning.
RECURSIVE ReadLoop(_, _, _)
ReadLoop(who, files, i) ==
    IF i > Len(files) THEN [laws |-> <<>>, warnings |-> 0]
    ELSE LET rest == ReadLoop(who, files, i + 1)
         IN  IF ~Takes(who, files[i].key) THEN rest
             ELSE IF files[i].readable
                  THEN [rest EXCEPT !.laws = <<files[i].key>> \o @]
                  ELSE [rest EXCEPT !.warnings = @ + 1]

\* The loop without the try around one file: the first failure ends it.
RECURSIVE ReadLoopUnguarded(_, _, _)
ReadLoopUnguarded(who, files, i) ==
    IF i > Len(files) THEN [laws |-> <<>>, warnings |-> 0, failed |-> FALSE]
    ELSE IF ~Takes(who, files[i].key) THEN ReadLoopUnguarded(who, files, i + 1)
    ELSE IF ~files[i].readable THEN [laws |-> <<>>, warnings |-> 0, failed |-> TRUE]
    ELSE LET rest == ReadLoopUnguarded(who, files, i + 1)
         IN  [rest EXCEPT !.laws = IF rest.failed THEN <<>> ELSE <<files[i].key>> \o @]

\* law_id of _get_fallback_laws
fallback_law_id == "environmental_act_2024"

read_laws_unguarded(who, listed, files) ==
    LET loop == ReadLoopUnguarded(who, files, 1)
    IN  IF who = "stage3"
        THEN [state |-> "returned", warnings |-> 0,
              laws |-> IF listed /\ ~loop.failed /\ loop.laws # <<>> THEN loop.laws
                       ELSE <<fallback_law_id>>]
        ELSE [state |-> IF listed /\ loop.failed THEN "raised" ELSE "returned",
              warnings |-> 0,
              laws |-> IF listed /\ ~loop.failed THEN loop.laws ELSE <<>>]
\* LegislativeImpactAnalyzer._read_laws (who = "stage3"): the laws read, or the fallback
\* law when the listing failed or nothing was read.
\* AgenticLawS3Analyzer._fetch_laws_from_s3 (who = "s3_analyzer"): the laws read, none
\* when the listing failed.
read_laws(who, listed, files) ==
    LET loop == ReadLoop(who, files, 1)
    IN  IF who = "stage3"
        THEN [state |-> "returned", warnings |-> IF listed THEN loop.warnings ELSE 0,
              laws |-> IF listed /\ loop.laws # <<>> THEN loop.laws
                       ELSE <<fallback_law_id>>]
        ELSE [state |-> "returned", warnings |-> IF listed THEN loop.warnings ELSE 0,
              laws |-> IF listed THEN loop.laws ELSE <<>>]

\* Number of objects under the laws folder.
MaxLawFiles == 3

\* Keys list_objects can return for the laws folder.
LawKeys == {"laws/", "laws/climate.txt", "laws/banking.html", "laws/notes.pdf"}
LawFiles == [key : LawKeys, readable : BOOLEAN]
RECURSIVE Listings(_)
Listings(n) ==
    IF n = 0 THEN {<<>>}
    ELSE LET shorter == Listings(n - 1)
         IN  shorter \cup
             {Append(l, f) : l \in {x \in shorter : Len(x) = n - 1},
                             f \in LawFiles}
DistinctKeys(files) ==
    \A i, j \in 1..Len(files) : i # j => files[i].key # files[j].key

\* laws_data = self._read_laws() / laws_data = await self._fetch_laws_from_s3()
fetch_laws ==
    /\ reader # ""
    /\ laws_data.state = "none"
    /\ laws_data' = read_laws(reader, listing_ok, law_files)
    /\ UNCHANGED <<reader, law_files, listing_ok>>
    /\ UNCHANGED not_reader

InitReader ==
    /\ reader \in {"stage3", "s3_analyzer"}
    /\ law_files \in {l \in Listings(MaxLawFiles) : DistinctKeys(l)}
    /\ listing_ok \in BOOLEAN
    /\ laws_data = [state |-> "none"]
    /\ IdleButReader
NextReader == fetch_laws
SpecReader == InitReader /\ [][NextReader]_vars

\* ------------------------------------------------------------------ retried store calls
\* One call on the object store by a stage of the pipeline, attempt by attempt.
\* failures_ahead is the number of consecutive attempts the store would fail
\* before one succeeds.

\* @retry(stop_max_attempt_number=3, ...) of s3_handler.py
stop_max_attempt_number == 3

\* The methods of S3Handler that carry the @retry decorator; list_objects has
\* none, and get_object is the boto3 client called directly by _read_laws.
RetriedMethods == {"read_json", "read_csv", "write_json", "write_csv"}

\* The store calls each stage issues (stage 0: the orchestrator's marker and report).
StoreCalls ==
    {[stage |-> 0, method |-> "write_json"],
     [stage |-> 1, method |-> "read_csv"], [stage |-> 1, method |-> "write_json"],
     [stage |-> 2, method |-> "read_json"], [stage |-> 2, method |-> "write_json"],
     [stage |-> 3, method |-> "read_json"], [stage |-> 3, method |-> "list_objects"],
     [stage |-> 3, method |-> "get_object"], [stage |-> 3, method |-> "write_json"],
     [stage |-> 4, method |-> "read_json"], [stage |-> 4, method |-> "write_json"],
     [stage |-> 5, method |-> "read_json"], [stage |-> 5, method |-> "write_json"],
     [stage |-> 6, method |-> "read_json"], [stage |-> 6, method |-> "write_json"],
     [stage |-> 6, method |-> "write_csv"]}

\* Number of attempts a call of the method is allowed.
attempts_allowed(method) ==
    IF method \in RetriedMethods THEN stop_max_attempt_number ELSE 1

\* Longest run of failing attempts the store is made to give.
MaxFailures == 4

\* The attempt reaches the store and its result is returned to the caller.
attempt_succeeds ==
    /\ call_outcome = "pending"
    /\ attempt_number >= failures_ahead
    /\ attempt_number' = attempt_number + 1
    /\ call_outcome' = "returned"
    /\ UNCHANGED <<store_call, failures_ahead>>
    /\ UNCHANGED not_retry

\* The attempt raises; the except clause logs and re-raises, and the decorator
\* calls the method again.
attempt_fails_and_retries ==
    /\ call_outcome = "pending"
    /\ attempt_number < failures_ahead
    /\ attempt_number + 1 < attempts_allowed(store_call.method)
    /\ attempt_number' = attempt_number + 1
    /\ UNCHANGED <<store_call, failures_ahead, call_outcome>>
    /\ UNCHANGED not_retry

\* The attempt raises and no attempt is left: the exception reaches the caller.
attempt_fails_and_raises ==
    /\ call_outcome = "pending"
    /\ attempt_number < failures_ahead
    /\ attempt_number + 1 >= attempts_allowed(store_call.method)
    /\ attempt_number' = attempt_number + 1
    /\ call_outcome' = "raised"
    /\ UNCHANGED <<store_call, failures_ahead>>
    /\ UNCHANGED not_retry

InitRetry ==
    /\ store_call \in StoreCalls
    /\ failures_ahead \in 0..MaxFailures
    /\ attempt_number = 0
    /\ call_outcome = "pending"
    /\ IdleButRetry

NextRetry ==
    \/ attempt_succeeds
    \/ attempt_fails_and_retries
    \/ attempt_fails_and_raises

SpecRetry == InitRetry /\ [][NextRetry]_vars

\* ------------------------------------------------------------------ data handed from stage to stage
\* One run of stages 2 to 6 on the portfolio stage 1 extracted: each stage reads the
\* documents of the stages before it and adds its own. Only the fields a later stage
\* reads are kept.

\* Number of companies of a portfolio.
MaxCompanies == 2

\* Companies of 01_portfolio_data.json: two tickers of the technology list and one
\* of no list; rows with the same ticker are possible.
PortfolioTickers == {"AAPL", "MSFT", "Q"}
PortfolioMarketCaps == {0, 1000, 3000}
InputCompanies == [ticker : PortfolioTickers, market_cap : PortfolioMarketCaps]
InputPortfolios == UNION {[1..n -> InputCompanies] : n \in 1..MaxCompanies}

\* Laws _read_laws can return: the fallback law, a law on technology with a new
\* compliance duty, and a law in which no keyword was found.
TechnologyLaw == [key_themes |-> <<"technology_regulation">>,
                  key_measures |-> <<"new_compliance">>]
GeneralLaw == [key_themes |-> <<"general_regulation">>,
               key_measures |-> <<"compliance_requirement">>]
InputLawLists == {<<FallbackLaw>>, <<TechnologyLaw>>, <<FallbackLaw, TechnologyLaw>>,
                  <<GeneralLaw>>}

\* config['execution_parameters']
InputExecutionParameters ==
    [min_impact_coefficient : {3, 7}, max_projection_years : {2, 5}]

\* ---- stage 2: SectorClassifier._create_sector_taxonomy
assigned_sector_of(company) == _assign_sector_by_ticker(company.ticker, StaticTickerSectors)

\* The keys of sector_companies in insertion order, from company i on.
RECURSIVE SectorKeys(_, _, _)
SectorKeys(companies, seen, i) ==
    IF i > Len(companies) THEN <<>>
    ELSE LET s == assigned_sector_of(companies[i])
         IN  IF s \in seen THEN SectorKeys(companies, seen, i + 1)
             ELSE <<s>> \o SectorKeys(companies, seen \cup {s}, i + 1)

\* sector_companies[sid]: the companies appended to the sector's list, in order.
sector_companies(companies, sid) ==
    SelectSeq(companies, LAMBDA c : assigned_sector_of(c) = sid)

RECURSIVE SumMarketCap(_, _)
SumMarketCap(companies, i) ==
    IF i > Len(companies) THEN 0
    ELSE companies[i].market_cap + SumMarketCap(companies, i + 1)

\* Variant: the total is taken over the whole portfolio.
total_market_cap_of_portfolio(companies, members) == SumMarketCap(companies, 1)

\* total_market_cap = sum(c['market_cap'] for c in companies)
total_market_cap_of(companies, members) == SumMarketCap(members, 1)

\* company['sector_weight_percent'] = (company['market_cap'] / total_market_cap) * 100
\* when total_market_cap > 0, and the initial 0 otherwise; kept as the fraction num / den.
sector_weight_percent_of(cap, total) ==
    IF total > 0 THEN [num |-> cap * 100, den |-> total] ELSE [num |-> 0, den |-> 1]

\* Variant: companies without market cap are left out of the sector's list.
sector_of_without_empty(companies, sid) ==
    LET members == SelectSeq(sector_companies(companies, sid), LAMBDA c : c.market_cap > 0)
        total == total_market_cap_of(companies, members)
    IN  [sector_id |-> sid,
         total_market_cap |-> total,
         companies_count |-> Len(members),
         companies |-> [i \in 1..Len(members) |->
             [ticker |-> members[i].ticker,
              market_cap |-> members[i].market_cap,
              sector_weight_percent |->
                  sector_weight_percent_of(members[i].market_cap, total)]]]

\* One sector of the taxonomy (lines 85-102).
sector_of(companies, sid) ==
    LET members == sector_companies(companies, sid)
        total == total_market_cap_of(companies, members)
    IN  [sector_id |-> sid,
         total_market_cap |-> total,
         companies_count |-> Len(members),
         companies |-> [i \in 1..Len(members) |->
             [ticker |-> members[i].ticker,
              market_cap |-> members[i].market_cap,
              sector_weight_percent |->
                  sector_weight_percent_of(members[i].market_cap, total)]]]

_create_sector_taxonomy(companies) ==
    LET keys == SectorKeys(companies, {}, 1)
    IN  [k \in 1..Len(keys) |-> sector_of(companies, keys[k])]

classify_sectors ==
    /\ stage = 1
    /\ sector_taxonomy' = _create_sector_taxonomy(portfolio_data)
    /\ stage' = 2
    /\ UNCHANGED <<portfolio_data, laws_read, execution_parameters, laws_analyzed,
                   sector_flows, sector_forecasts, reallocated_companies>>
    /\ UNCHANGED not_dataflow

\* ---- stage 3: LegislativeImpactAnalyzer._analyze_single_law
\* Variant: a coefficient of exactly 7 is not yet direct.
impact_type_of_above_7(impact_coeff) ==
    IF impact_coeff > 7 * HalfUnits THEN "direct" ELSE "indirect"

\* impact_type = "direct" if impact_coefficient >= 7 else "indirect"
impact_type_of(impact_coeff) ==
    IF impact_coeff >= 7 * HalfUnits THEN "direct" ELSE "indirect"

\* The loop over the sectors from sector i on: the sector_impacts appended.
RECURSIVE SectorImpactsLoop(_, _, _, _)
SectorImpactsLoop(l, sectors, min_coeff, i) ==
    IF i > Len(sectors) THEN <<>>
    ELSE LET impact_coeff == _calculate_impact_coefficient(l, sectors[i].sector_id)
         IN  (IF impact_coeff >= min_coeff * HalfUnits
              THEN <<[sector_id |-> sectors[i].sector_id,
                      impact_coefficient |-> impact_coeff,
                      impact_type |-> impact_type_of(impact_coeff)]>>
              ELSE <<>>)
             \o SectorImpactsLoop(l, sectors, min_coeff, i + 1)

_analyze_single_law(l, sectors, min_coeff) ==
    [key_themes |-> l.key_themes,
     key_measures |-> l.key_measures,
     sector_impacts |-> SectorImpactsLoop(l, sectors, min_coeff, 1)]

analyze_legislative_impact ==
    /\ stage = 2
    /\ laws_analyzed' =
          [n \in 1..Len(laws_read) |->
              _analyze_single_law(laws_read[n], sector_taxonomy,
                                  execution_parameters.min_impact_coefficient)]
    /\ stage' = 3
    /\ UNCHANGED <<portfolio_data, laws_read, execution_parameters, sector_taxonomy,
                   sector_flows, sector_forecasts, reallocated_companies>>
    /\ UNCHANGED not_dataflow

\* ---- stage 4: MonetaryFlowModeler._model_sector_flows
\* The sector_impacts of all laws, in order (lines 70-76 group them by sector_id).
RECURSIVE AllSectorImpacts(_, _)
AllSectorImpacts(analyzed, n) ==
    IF n > Len(analyzed) THEN <<>>
    ELSE analyzed[n].sector_impacts \o AllSectorImpacts(analyzed, n + 1)

RECURSIVE SumCoefficients(_, _)
SumCoefficients(impacts, i) ==
    IF i > Len(impacts) THEN 0
    ELSE impacts[i].impact_coefficient + SumCoefficients(impacts, i + 1)

\* Variant: a sector without impact is given the neutral coefficient 5.
net_impact_coefficient_of_neutral(analyzed, sid) ==
    LET impacts == SelectSeq(AllSectorImpacts(analyzed, 1), LAMBDA imp : imp.sector_id = sid)
    IN  IF impacts = <<>> THEN [sum |-> 5 * HalfUnits, count |-> 1]
        ELSE [sum |-> SumCoefficients(impacts, 1), count |-> Len(impacts)]

\* net_impact_coefficient: 0, or sum(coefficients) / len(coefficients) for a sector
\* in sector_impacts.
net_impact_coefficient_of(analyzed, sid) ==
    LET impacts == SelectSeq(AllSectorImpacts(analyzed, 1), LAMBDA imp : imp.sector_id = sid)
    IN  IF impacts = <<>> THEN [sum |-> 0, count |-> 1]
        ELSE [sum |-> SumCoefficients(impacts, 1), count |-> Len(impacts)]

sector_flow_of(sector, analyzed) ==
    LET net == net_impact_coefficient_of(analyzed, sector.sector_id)
    IN  [sector_id |-> sector.sector_id,
         current_market_cap |-> sector.total_market_cap,
         net_impact_coefficient |-> net,
         impact_direction |-> _determine_impact_direction(net),
         monetary_impact |-> _calculate_monetary_impact(sector.total_market_cap, net)]

\* Variant: only the sectors some law has an impact on get a flow.
_model_sector_flows_impacted_only(sectors, analyzed) ==
    LET impacted == SelectSeq(sectors, LAMBDA sector :
            \E i \in 1..Len(AllSectorImpacts(analyzed, 1)) :
                AllSectorImpacts(analyzed, 1)[i].sector_id = sector.sector_id)
    IN  [i \in 1..Len(impacted) |-> sector_flow_of(impacted[i], analyzed)]

_model_sector_flows(sectors, analyzed) ==
    [i \in 1..Len(sectors) |-> sector_flow_of(sectors[i], analyzed)]

model_monetary_flows ==
    /\ stage = 3
    /\ sector_flows' = _model_sector_flows(sector_taxonomy, laws_analyzed)
    /\ stage' = 4
    /\ UNCHANGED <<portfolio_data, laws_read, execution_parameters, sector_taxonomy,
                   laws_analyzed, sector_forecasts, reallocated_companies>>
    /\ UNCHANGED not_dataflow

\* ---- stage 5: SectorImpactQuantifier._quantify_single_sector
\* Variant: growth and decline exchange their timelines.
_calculate_absorption_timeline_swapped(impact_direction) ==
    CASE impact_direction = "growth" -> 2
      [] impact_direction = "decline" -> 3
      [] impact_direction = "stagnation" -> 1
      [] OTHER -> 3

\* timelines.get(impact_direction, 3)
_calculate_absorption_timeline(impact_direction) ==
    CASE impact_direction = "growth" -> 3
      [] impact_direction = "decline" -> 2
      [] impact_direction = "stagnation" -> 1
      [] OTHER -> 3

\* total_percent_change = (net_change / baseline_market_cap * 100) if baseline_market_cap > 0
\* else 0; net_change is in thousandths of a dollar.
total_percent_change_of(sector_flow) ==
    IF sector_flow.current_market_cap > 0
    THEN sector_flow.monetary_impact.net_change \div (sector_flow.current_market_cap * 10)
    ELSE 0

\* A forecast; of each yearly projection, the fields that do not depend on the
\* random volatility draw.
_quantify_single_sector(sector_flow, max_years) ==
    LET absorption_timeline == _calculate_absorption_timeline(sector_flow.impact_direction)
        total == total_percent_change_of(sector_flow)
    IN  [sector_id |-> sector_flow.sector_id,
         absorption_timeline_years |-> absorption_timeline,
         total_percent_change |-> total,
         yearly_projections |->
             [year \in 1..Min(absorption_timeline, max_years) |->
                 [year |-> year,
                  cumulative_change_percent |->
                      cumulative_change_of(total, year, absorption_timeline)]]]

quantify_sector_impacts ==
    /\ stage = 4
    /\ sector_forecasts' =
          [i \in 1..Len(sector_flows) |->
              _quantify_single_sector(sector_flows[i],
                                      execution_parameters.max_projection_years)]
    /\ stage' = 5
    /\ UNCHANGED <<portfolio_data, laws_read, execution_parameters, sector_taxonomy,
                   laws_analyzed, sector_flows, reallocated_companies>>
    /\ UNCHANGED not_dataflow

\* ---- stage 6: PortfolioReallocator.reallocate_portfolio
\* The assignments sector_map[company['ticker']] = {...} of _create_sector_company_map,
\* in order, from sector i on: a later one replaces an earlier one for the same ticker.
RECURSIVE SectorMapEntries(_, _)
SectorMapEntries(sectors, i) ==
    IF i > Len(sectors) THEN <<>>
    ELSE [j \in 1..Len(sectors[i].companies) |->
             [ticker |-> sectors[i].companies[j].ticker,
              sector_id |-> sectors[i].sector_id,
              sector_weight_percent |-> sectors[i].companies[j].sector_weight_percent]]
         \o SectorMapEntries(sectors, i + 1)

Last(indices) == CHOOSE i \in indices : \A j \in indices : j <= i

\* sector_info of _reallocate_single_company: the map's entry, or the default "other"
\* with sector_weight_percent 1.0.
sector_info_of(company_ticker, sectors) ==
    LET entries == SectorMapEntries(sectors, 1)
        found == {i \in 1..Len(entries) : entries[i].ticker = company_ticker}
    IN  IF found # {}
        THEN [in_sector_map |-> TRUE,
              sector_id |-> entries[Last(found)].sector_id,
              sector_weight_percent |-> entries[Last(found)].sector_weight_percent]
        ELSE [in_sector_map |-> FALSE,
              sector_id |-> "other",
              sector_weight_percent |-> [num |-> 1, den |-> 1]]

\* One company of reallocated_companies; the weight factor is computed on the
\* sector_weight_percent rounded down to a half-percent.
reallocated_company_of(company, sectors, forecasts) ==
    LET sector_info == sector_info_of(company.ticker, sectors)
        found == {i \in 1..Len(forecasts) : forecasts[i].sector_id = sector_info.sector_id}
        w == (sector_info.sector_weight_percent.num * WeightUnits)
                 \div sector_info.sector_weight_percent.den
    IN  [ticker |-> company.ticker,
         sector_id |-> sector_info.sector_id,
         in_sector_map |-> sector_info.in_sector_map]
        @@ _reallocate_single_company(
               w, found # {},
               IF found # {} THEN forecasts[Last(found)].total_percent_change ELSE 0)

reallocate_portfolio ==
    /\ stage = 5
    /\ reallocated_companies' =
          [i \in 1..Len(portfolio_data) |->
              reallocated_company_of(portfolio_data[i], sector_taxonomy, sector_forecasts)]
    /\ stage' = 6
    /\ UNCHANGED <<portfolio_data, laws_read, execution_parameters, sector_taxonomy,
                   laws_analyzed, sector_flows, sector_forecasts>>
    /\ UNCHANGED not_dataflow

InitDataflow ==
    /\ portfolio_data \in InputPortfolios
    /\ laws_read \in InputLawLists
    /\ execution_parameters \in InputExecutionParameters
    /\ stage = 1
    /\ sector_taxonomy = <<>>
    /\ laws_analyzed = <<>>
    /\ sector_flows = <<>>
    /\ sector_forecasts = <<>>
    /\ reallocated_companies = <<>>
    /\ IdleButDataflow

NextDataflow ==
    \/ classify_sectors
    \/ analyze_legislative_impact
    \/ model_monetary_flows
    \/ quantify_sector_impacts
    \/ reallocate_portfolio

SpecDataflow == InitDataflow /\ [][NextDataflow]_vars

\* ------------------------------------------------------------------ strands of the S3 law analyzer
\* analyze_laws_s3 on one AgenticLawS3Analyzer, cut at its four awaits. None of the
\* awaited coroutines suspends (they call boto3 synchronously), so a call runs to its
\* end before another call on the same event loop can start.

\* Number of calls of analyze_laws_s3 on the analyzer.
MaxAnalyses == 3

\* Number of sectors the model's answers name.
MaxSectorsFound == 2

\* LawStrand(strand_id, task, "running"), result defaulting to {}
LawStrand(strand_id) ==
    [strand_id |-> strand_id, status |-> "running", result |-> [key |-> "", value |-> 0]]

\* Variant: the result is stored but the status is left as it was.
Completed_result_only(strands, key, value) ==
    [strands EXCEPT ![Len(strands)] =
        [@ EXCEPT !.result = [key |-> key, value |-> value]]]

\* strand.status = "completed"; strand.result = {key: value}, on the strand
\* appended last.
Completed(strands, key, value) ==
    [strands EXCEPT ![Len(strands)] =
        [@ EXCEPT !.status = "completed", !.result = [key |-> key, value |-> value]]]

\* Lines 65-69: the list is cleared and the first strand created.
analyze_laws_s3 ==
    /\ strand_pc \in {"idle", "returned", "raised"}
    /\ analyses < MaxAnalyses
    /\ analyses' = analyses + 1
    /\ active_strands' = <<LawStrand("fetch_laws")>>
    /\ analysis_result' = [state |-> "running"]
    /\ strand_pc' = "fetch_laws"
    /\ UNCHANGED not_strands

\* Lines 70-75: _fetch_laws_from_s3 returns the laws it could read (none when the
\* listing failed: it catches every error), then the second strand is created.
fetch_laws_returns ==
    /\ strand_pc = "fetch_laws"
    /\ \E laws_count \in 0..MaxLawFiles :
          /\ active_strands' =
                Append(Completed(active_strands, "laws_count", laws_count),
                       LawStrand("analyze_sectors"))
          /\ analysis_result' = [state |-> "running", laws_analyzed |-> laws_count]
    /\ strand_pc' = "analyze_sectors"
    /\ UNCHANGED analyses
    /\ UNCHANGED not_strands

\* Lines 76-81: _analyze_sectors_from_laws returns, then the third strand is created.
analyze_sectors_returns ==
    /\ strand_pc = "analyze_sectors"
    /\ \E sectors_found \in 0..MaxSectorsFound :
          /\ analysis_result.laws_analyzed = 0 => sectors_found = 0
          /\ active_strands' =
                Append(Completed(active_strands, "sectors_found", sectors_found),
                       LawStrand("calculate_weights"))
    /\ strand_pc' = "calculate_weights"
    /\ UNCHANGED <<analysis_result, analyses>>
    /\ UNCHANGED not_strands

\* Line 76 raises: the answer for a law names a sector without "score" (KeyError at
\* line 161, outside the try of _analyze_single_law); nothing catches it.
analyze_sectors_raises ==
    /\ strand_pc = "analyze_sectors"
    /\ analysis_result.laws_analyzed > 0
    /\ analysis_result' = [state |-> "raised", laws_analyzed |-> analysis_result.laws_analyzed]
    /\ strand_pc' = "raised"
    /\ UNCHANGED <<active_strands, analyses>>
    /\ UNCHANGED not_strands

\* Lines 82-87: _calculate_sector_weights returns, then the fourth strand is created.
calculate_weights_returns ==
    /\ strand_pc = "calculate_weights"
    /\ active_strands' =
          Append(Completed(active_strands, "weights_calculated", 1), LawStrand("save_s3"))
    /\ strand_pc' = "save_s3"
    /\ UNCHANGED <<analysis_result, analyses>>
    /\ UNCHANGED not_strands

\* Lines 88-109: _save_results_to_s3 returns the snapshot's path, or "" when the write
\* failed (it catches the error); the strand is completed and the result returned.
save_s3_returns ==
    /\ strand_pc = "save_s3"
    /\ \E written_ok \in BOOLEAN :
          LET done == Completed(active_strands, "s3_path", IF written_ok THEN 1 ELSE 0)
          IN  /\ active_strands' = done
              /\ analysis_result' =
                    [state |-> "returned",
                     laws_analyzed |-> analysis_result.laws_analyzed,
                     strands_executed |-> Len(done),
                     s3_output_path |-> IF written_ok THEN "s3://bucket/snapshot" ELSE ""]
    /\ strand_pc' = "returned"
    /\ UNCHANGED analyses
    /\ UNCHANGED not_strands

InitStrands ==
    /\ active_strands = <<>>
    /\ strand_pc = "idle"
    /\ analysis_result = [state |-> "none"]
    /\ analyses = 0
    /\ IdleButStrands

NextStrands ==
    \/ analyze_laws_s3
    \/ fetch_laws_returns
    \/ analyze_sectors_returns
    \/ analyze_sectors_raises
    \/ calculate_weights_returns
    \/ save_s3_returns

SpecStrands == InitStrands /\ [][NextStrands]_vars

\* ================================================================== claims
\* Entries appended to execution_log by the current (last) call.
NewEntries == SubSeq(execution_log, log_before + 1, Len(execution_log))

\* C1: execute_full_pipeline starts the stages in the order 1, 2, ..., 6, each at most
\* once, a stage only after the one before it has returned; a run that returns has
\* run all six.
C1_StagesInOrder ==
    mode = "full" =>
        /\ Len(calls) <= 6
        /\ \A i \in 1..Len(calls) :
             /\ calls[i].agent_id = i
             /\ i < Len(calls) => calls[i].state = "returned"
        /\ outcome = "returned" =>
             /\ Len(calls) = 6
             /\ calls[6].state = "returned"

C1_Witness ==
    /\ mode = "full"
    /\ outcome = "returned"
    /\ Len(calls) = 6
    /\ results = AgentIds

\* C2: when a stage raises in execute_full_pipeline the run is over: the failed stage
\* is the last one started (no later stage, no retry, no skip), the exception reaches
\* the caller, and this run has put no execution_report.json.
C2_FailureAborts ==
    mode = "full" =>
        \A i \in 1..Len(calls) :
            calls[i].state = "raised" =>
                /\ i = Len(calls)
                /\ pc = "idle"
                /\ outcome = "raised"
                /\ ret = NoValue
                /\ ~(report_path \in store /\ writer[report_path] = run)

C2_Witness ==
    /\ mode = "full"
    /\ Len(calls) = 3
    /\ calls[3].state = "raised"
    /\ outcome = "raised"

\* C3: in a full run every stage that has returned has its snapshot in the store,
\* written by this run, and every snapshot a stage reads was written by this run.
C3_SnapshotsFromThisRun ==
    mode = "full" =>
        \A i \in 1..Len(calls) :
            /\ calls[i].state = "returned" =>
                 /\ AgentOutput(calls[i].agent_id) \in store
                 /\ writer[AgentOutput(calls[i].agent_id)] = run
            /\ (AgentReads(calls[i].agent_id) \cap Snapshots) \subseteq calls[i].fresh

C3_Witness ==
    /\ mode = "full"
    /\ run = 2
    /\ Len(calls) = 6
    /\ calls[4].fresh = {K02, K03}
    /\ calls[6].fresh = {K01, K02, K05}
    /\ calls[6].state = "returned"

\* C4: after any call, every stage the call started has exactly one entry in
\* execution_log, SUCCESS if the stage returned and FAILED if it raised.
C4_EveryStartLogged ==
    (pc = "idle" /\ run > 0) =>
        /\ Len(NewEntries) >= Len(calls)
        /\ \A i \in 1..Len(calls) :
             /\ NewEntries[i].agent_id = calls[i].agent_id
             /\ NewEntries[i].status =
                    (IF calls[i].state = "returned" THEN "SUCCESS" ELSE "FAILED")

\* C5: execute_single_agent(agent_id) appends exactly one entry with that agent_id:
\* SUCCESS and the agent's result returned when the agent returns; FAILED and the
\* exception re-raised when the agent raises or agent_id is none of 1..6.
C5_SingleAgentLogsOnce ==
    mode = "single" =>
        /\ pc = "single_agent" => NewEntries = <<>>
        /\ pc = "idle" =>
             /\ Len(NewEntries) = 1
             /\ NewEntries[1].agent_id = agent_id
             /\ outcome \in {"returned", "raised"}
             /\ outcome = "returned" =>
                  /\ NewEntries[1].status = "SUCCESS"
                  /\ ret = AgentResult(agent_id, run)
                  /\ calls[1].state = "returned"
             /\ outcome = "raised" =>
                  /\ NewEntries[1].status = "FAILED"
                  /\ ret = NoValue
             /\ (agent_id \notin AgentIds \/ (calls # <<>> /\ calls[1].state = "raised"))
                  => outcome = "raised"

C5_Witness ==
    /\ mode = "single"
    /\ pc = "idle"
    /\ agent_id = 7
    /\ outcome = "raised"
    /\ Len(execution_log) = 2
    /\ execution_log[1].status = "SUCCESS"
    /\ execution_log[2] = [agent_id |-> 7, status |-> "FAILED",
                           result_summary |-> ErrorOf(7, 2)]

\* C6: a ticker of sector S's static list is assigned exactly S, and not by the
\* keyword or length heuristics.
C6_ListedTickerGetsItsSector ==
    (assigned_sector # "" /\ ticker_sectors = StaticTickerSectors) =>
        \A i \in 1..Len(StaticTickerSectors) :
            InList(ticker, StaticTickerSectors[i].tickers) =>
                /\ assigned_sector = StaticTickerSectors[i].sector
                /\ ~heuristic_used

\* C7: a ticker of none of the supplied lists is assigned "other", and a ticker of
\* one of the lists is assigned that list's sector.
C7_UnlistedTickerIsOther ==
    assigned_sector # "" =>
        /\ (\A i \in 1..Len(ticker_sectors) : ~InList(ticker, ticker_sectors[i].tickers))
               => assigned_sector = "other"
        /\ \A i \in 1..Len(ticker_sectors) :
               (/\ InList(ticker, ticker_sectors[i].tickers)
                /\ \A j \in 1..Len(ticker_sectors) :
                       j # i => ~InList(ticker, ticker_sectors[j].tickers))
               => assigned_sector = ticker_sectors[i].sector

\* C8: the coefficient of every law and sector lies in [1, 10].
C8_CoefficientInRange ==
    impact_coefficient # 0 =>
        /\ impact_coefficient >= 1 * HalfUnits
        /\ impact_coefficient <= 10 * HalfUnits

\* The clamp acted: energy under an environmental law with a subsidy scores 9 + 2.
C8_Witness ==
    /\ impact_coefficient = 10 * HalfUnits
    /\ sector_id = "energy"
    /\ UnclampedScore(law, sector_id) = 11 * HalfUnits

\* C9 as stated: for consumer_staples the coefficient never exceeds
\* max(1, half of the base score the theme matrix gives).
C9_StaplesAtMostHalfBase ==
    (impact_coefficient # 0 /\ sector_id = "consumer_staples") =>
        impact_coefficient <= Max(1 * HalfUnits, theme_score \div 2)

\* C9 as amended: the bound holds whenever no subsidy measure was detected, and with
\* a subsidy the coefficient exceeds it by at most the subsidy's modifier (2).
C9_StaplesAtMostHalfBaseUnlessSubsidy ==
    (impact_coefficient # 0 /\ sector_id = "consumer_staples") =>
        /\ ~InList("subsidy", law.key_measures) =>
               impact_coefficient <= Max(1 * HalfUnits, theme_score \div 2)
        /\ impact_coefficient <=
               Max(1 * HalfUnits, theme_score \div 2) + measure_modifiers.subsidy * HalfUnits

C9_Witness ==
    /\ sector_id = "consumer_staples"
    /\ law.key_themes = <<"environmental_regulation", "taxation">>
    /\ law.key_measures = <<"reporting_obligation", "subsidy">>
    /\ theme_score = 2 * HalfUnits
    /\ impact_coefficient = 3 * HalfUnits

\* C10: for a coefficient c in [1, 10] the rate is +15% when c >= 8, +8% when
\* 6 <= c < 8, -20% when c <= 2, -12% when 2 < c <= 4 and +2% when 4 < c < 6;
\* net_change is market_cap times the rate.
C10_DiscreteRate ==
    (monetary_impact.state = "computed" /\ AtLeast(coefficient, 1) /\ AtMost(coefficient, 10)) =>
        LET n == coefficient.count
            sm == coefficient.sum
            rate == monetary_impact.impact_rate
        IN  /\ rate \in {150, 80, 20, -120, -200}
            /\ sm >= 16 * n => rate = 150
            /\ (sm >= 12 * n /\ sm < 16 * n) => rate = 80
            /\ sm <= 4 * n => rate = -200
            /\ (sm > 4 * n /\ sm <= 8 * n) => rate = -120
            /\ (sm > 8 * n /\ sm < 12 * n) => rate = 20
            /\ monetary_impact.net_change = market_cap * rate

\* A non-integer mean just below a breakpoint: (8 + 8 + 7.5) / 3 < 8 gives +8%.
C10_Witness ==
    /\ monetary_impact.state = "computed"
    /\ coefficient = [sum |-> 47, count |-> 3]
    /\ market_cap = 52000
    /\ monetary_impact.impact_rate = 80
    /\ monetary_impact.net_change = 52000 * 80

\* Sum of the year-over-year changes of the emitted years, without their volatility.
RECURSIVE SumYoyWithoutNoise(_, _)
SumYoyWithoutNoise(projections, n) ==
    IF n = 0 THEN 0
    ELSE SumYoyWithoutNoise(projections, n - 1)
         + projections[n].year_over_year_change_percent
         - projections[n].volatility_adjustment_percent

Abs(x) == IF x < 0 THEN 0 - x ELSE x

\* C11: ignoring the injected volatility, the year-over-year changes of the years
\* _generate_yearly_projections emits sum to the cumulative_change_percent of the last
\* emitted year, for every timeline in {1, 2, 3} and every max_projection_years >= 1.
C11_YoySumsToCumulative ==
    yearly_projections # <<>> =>
        SumYoyWithoutNoise(yearly_projections, Len(yearly_projections))
            = yearly_projections[Len(yearly_projections)].cumulative_change_percent
\* Two years emitted out of a timeline of three, with volatility drawn and a change to spread.
C11_Witness ==
    /\ timeline_years = 3
    /\ Len(yearly_projections) = 2
    /\ total_percent_change # 0
    /\ yearly_projections[2].volatility_adjustment_percent # 0

\* C12 as stated: with max_projection_years >= timeline_years, the projection of year
\* timeline_years has cumulative_change_percent = total_percent_change * s(1.0), which is
\* total_percent_change * 0.9933 to within a thousandth.
C12_FinalYearIs9933 ==
    (yearly_projections # <<>> /\ max_projection_years >= timeline_years) =>
        /\ yearly_projections[timeline_years].cumulative_change_percent
               = total_percent_change * s_curve_factor(FixedOne)
        /\ Abs(yearly_projections[timeline_years].cumulative_change_percent
               - total_percent_change * 9933)
               <= Abs(total_percent_change) * (FixedOne \div 1000)
\* C12 amended: with max_projection_years >= timeline_years, the projection of year
\* timeline_years has cumulative_change_percent = total_percent_change * s(1.0), and
\* s(1.0) = 1 / (1 + 2.718^-2.5) is 0.9241 to within a thousandth.
C12_FinalYearIs9241 ==
    (yearly_projections # <<>> /\ max_projection_years >= timeline_years) =>
        /\ yearly_projections[timeline_years].year = timeline_years
        /\ yearly_projections[timeline_years].cumulative_change_percent
               = total_percent_change * s_curve_factor(FixedOne)
        /\ Abs(yearly_projections[timeline_years].cumulative_change_percent
               - total_percent_change * 9241)
               <= Abs(total_percent_change) * (FixedOne \div 1000)
\* A full timeline of three years was projected for a sector that changes.
C12_Witness ==
    /\ timeline_years = 3
    /\ max_projection_years >= timeline_years
    /\ Len(yearly_projections) = timeline_years
    /\ total_percent_change > 0

\* C13: _calculate_weight_factor is non-decreasing in sector_weight_percent over [0, 100]
\* (a company at least as heavy as the previous one gets at least its factor), the
\* adjacent formulas agree where the segments meet, 0.8 at 5 and 1.2 at 15, and the
\* result always lies in [0.6, 1.5].
C13_WeightFactorMonotoneContinuousBounded ==
    [][(reallocated_company'.state = "reallocated" /\ reallocated_company'.has_forecast) =>
          /\ reallocated_company'.weight_factor >= (6 * FixedOne) \div 10
          /\ reallocated_company'.weight_factor <= (15 * FixedOne) \div 10
          /\ (/\ reallocated_company.state = "reallocated"
              /\ reallocated_company.has_forecast
              /\ reallocated_company'.sector_weight_percent
                     >= reallocated_company.sector_weight_percent)
                 => reallocated_company'.weight_factor >= reallocated_company.weight_factor
          /\ reallocated_company'.sector_weight_percent = 5 * WeightUnits =>
                 /\ reallocated_company'.weight_factor = (8 * FixedOne) \div 10
                 /\ LowWeightFactor(5 * WeightUnits) = MidWeightFactor(5 * WeightUnits)
          /\ reallocated_company'.sector_weight_percent = 15 * WeightUnits =>
                 /\ reallocated_company'.weight_factor = (12 * FixedOne) \div 10
                 /\ MidWeightFactor(15 * WeightUnits) = HighWeightFactor(15 * WeightUnits)
      ]_vars
\* A company at the top of the range, where the clamp at 1.5 applies.
C13_Witness ==
    /\ reallocated_company.state = "reallocated"
    /\ reallocated_company.has_forecast
    /\ reallocated_company.sector_weight_percent = 100 * WeightUnits
    /\ reallocated_company.weight_factor = (15 * FixedOne) \div 10

\* C14 as stated: a company whose sector_weight_percent is 20 receives weight_factor 1.5,
\* so its applied_sector_impact_percent is 1.5 times its sector's total_percent_change.
C14_Weight20GetsFactor15 ==
    (/\ reallocated_company.state = "reallocated"
     /\ reallocated_company.has_forecast
     /\ reallocated_company.sector_weight_percent = 20 * WeightUnits) =>
        /\ reallocated_company.weight_factor = (15 * FixedOne) \div 10
        /\ reallocated_company.applied_sector_impact_percent
               = reallocated_company.base_sector_impact * ((15 * FixedOne) \div 10)
\* C14 amended: a company whose sector_weight_percent is 20 and whose sector has a forecast
\* receives weight_factor 1.275, so its applied_sector_impact_percent is 1.275 times its
\* sector's total_percent_change.
C14_Weight20GetsFactor1275 ==
    (/\ reallocated_company.state = "reallocated"
     /\ reallocated_company.has_forecast
     /\ reallocated_company.sector_weight_percent = 20 * WeightUnits) =>
        /\ reallocated_company.weight_factor = (1275 * FixedOne) \div 1000
        /\ reallocated_company.applied_sector_impact_percent
               = reallocated_company.base_sector_impact * ((1275 * FixedOne) \div 1000)
\* A company holding 20 percent of a sector that is forecast to lose 20 percent.
C14_Witness ==
    /\ reallocated_company.state = "reallocated"
    /\ reallocated_company.has_forecast
    /\ reallocated_company.sector_weight_percent = 20 * WeightUnits
    /\ reallocated_company.base_sector_impact = RateVeryNegative \div 10

\* The text contains both phrases of the scenario.
HasCarbonTaxAndCompliance ==
    /\ Contains(lower(content), "carbon tax")
    /\ Contains(lower(content), "compliance obligation")

\* C15 as stated: for a law whose text contains "carbon tax" and "compliance obligation",
\* the themes detected include environmental_regulation and taxation, the energy score
\* before the measure modifiers lies in [6, 9], and the energy coefficient is that score
\* reduced by the modifiers of both tax_increase and new_compliance, clamped to [1, 10].
C15_CarbonTaxReducedByTaxAndCompliance ==
    (HasCarbonTaxAndCompliance /\ sector_id = "energy" /\ impact_coefficient # 0) =>
        /\ InList("environmental_regulation", law.key_themes)
        /\ InList("taxation", law.key_themes)
        /\ theme_score >= 6 * HalfUnits /\ theme_score <= 9 * HalfUnits
        /\ InList("tax_increase", law.key_measures)
        /\ InList("new_compliance", law.key_measures)
        /\ impact_coefficient = Clamp(MeasureLoop(law.key_measures, theme_score, 1))
\* C15 amended: the themes detected include environmental_regulation and taxation, the
\* energy score before the measure modifiers is 9, and the energy coefficient is that score
\* reduced by the modifier of new_compliance and changed by those of the other measures
\* detected, clamped to [1, 10]; tax_increase is among them only when the text also contains
\* "increase tax", "higher tax" or "tax rate", so a text with nothing but the two phrases
\* gets 9 - 1 = 8.
C15_CarbonTaxReducedByComplianceOnly ==
    (HasCarbonTaxAndCompliance /\ sector_id = "energy" /\ impact_coefficient # 0) =>
        /\ InList("environmental_regulation", law.key_themes)
        /\ InList("taxation", law.key_themes)
        /\ theme_score = 9 * HalfUnits
        /\ InList("new_compliance", law.key_measures)
        /\ InList("tax_increase", law.key_measures)
               <=> \E keyword \in {"increase tax", "higher tax", "tax rate"} :
                       Contains(lower(content), keyword)
        /\ impact_coefficient = Clamp(MeasureLoop(law.key_measures, theme_score, 1))
        /\ lower(content) = "a carbon tax with a compliance obligation." =>
               /\ law.key_measures = <<"new_compliance">>
               /\ impact_coefficient = 8 * HalfUnits
\* The law that says nothing but the two phrases, scored for energy.
C15_Witness ==
    /\ content = "A carbon tax with a compliance obligation."
    /\ sector_id = "energy"
    /\ impact_coefficient = 8 * HalfUnits

\* C16 as stated: once a snapshot key has been written it is never written again, by a
\* later stage or a later run: no stage puts a snapshot key that is in the bucket already.
C16_SnapshotsNeverRewritten ==
    \A i \in 1..Len(calls) : calls[i].overwrote \cap Snapshots = {}
\* C16 amended: within one call of the orchestrator every stage puts only its own
\* snapshot (stage 6 also the final CSV), no key is put by two stages, and no stage puts
\* a key it reads; the keys are fixed names, so a later run puts the same keys again.
C16_OnePutPerKeyPerRun ==
    /\ \A i \in 1..Len(calls) :
          /\ calls[i].puts \subseteq {AgentOutput(calls[i].agent_id), final_csv}
          /\ calls[i].puts \cap AgentReads(calls[i].agent_id) = {}
          /\ calls[i].state = "returned" => AgentOutput(calls[i].agent_id) \in calls[i].puts
    /\ \A i, j \in 1..Len(calls) : i # j => calls[i].puts \cap calls[j].puts = {}
\* A second full run has replaced all six snapshots the first one wrote.
C16_Witness ==
    /\ run = 2
    /\ mode = "full"
    /\ Len(calls) = 6
    /\ \A i \in 1..6 : calls[i].state = "returned" /\ AgentOutput(i) \in calls[i].overwrote

\* C19: when the schema validation of the output of stage 1 or 2 fails, the stage raises
\* before any write: it has put no key, and the call of the orchestrator ends by raising.
C19_ValidationFailureWritesNothing ==
    \A i \in 1..Len(calls) :
        calls[i].cause = "validation" =>
            /\ calls[i].agent_id \in {1, 2}
            /\ calls[i].state = "raised"
            /\ calls[i].puts = {}
            /\ i = Len(calls)
            /\ pc = "idle"
            /\ outcome = "raised"
            /\ calls[i].agent_id = 2 => K02 \notin store \/ writer[K02] # run
            /\ calls[i].agent_id = 1 => K01 \notin store \/ writer[K01] # run
\* Stage 2 of a full pipeline failed its validation in a bucket that had no snapshot.
C19_Witness ==
    /\ mode = "full"
    /\ Len(calls) = 2
    /\ calls[2].cause = "validation"
    /\ K01 \in store
    /\ K02 \notin store

\* C17 as stated: when two pipeline runs with the same configuration execute concurrently
\* against the same store, neither run overwrites an output key written by the other, and
\* each stage reads only snapshots written by its own run.
C17_ConcurrentRunsIsolated ==
    \A p \in ConcurrentRuns : runs[p].overwrote = {} /\ runs[p].foreign = {}
\* C17 amended: within each of the two runs no key is put twice and every snapshot a stage
\* reads was put during these runs, by its own run or by the other one; between the runs
\* nothing is kept apart.
C17_ConcurrentRunsShareKeys ==
    \A p \in ConcurrentRuns :
        /\ runs[p].reput = {}
        /\ runs[p].stale = {}
        /\ runs[p].foreign \subseteq runs[OtherRun(p)].puts
        /\ runs[p].overwrote \subseteq runs[OtherRun(p)].puts \cap runs[p].puts
\* Both runs went through; one replaced a snapshot of the other and read one of the other.
C17_Witness ==
    /\ \A p \in ConcurrentRuns : runs[p].outcome = "returned"
    /\ \E p \in ConcurrentRuns : K01 \in runs[p].overwrote /\ K02 \in runs[p].foreign

\* C18: write_json(key, data) followed by read_json(key), with no other writer to that
\* key in between, returns a structure identical to data: both resolve the same full key,
\* so the read does not miss the object, and no field is lost or changed on the way.
C18_WriteThenReadReturnsData ==
    (read_result.state # "none" /\ read_result.expected # NoData) =>
        /\ read_result.state = "raised" => read_result.data # Absent
        /\ read_result.state = "returned" => read_result.data = read_result.expected
\* The portfolio was written and read back through a handler with a base path.
C18_Witness ==
    /\ base_path = "polyfinance"
    /\ read_result.state = "returned"
    /\ read_result.key = K01
    /\ read_result.expected = PortfolioData
    /\ read_result.data = PortfolioData

\* C20: when reading one law file fails in stage 3 or in the S3 law analyzer, that file
\* is skipped and the reader goes on: it does not fail, and every listed file it takes
\* (accepted extension) that can be read is among the laws it returns, in listing order,
\* while the unreadable ones are not.
C20_UnreadableLawSkipped ==
    (laws_data.state # "none" /\ listing_ok) =>
        /\ laws_data.state = "returned"
        /\ \A i \in 1..Len(law_files) :
              (Takes(reader, law_files[i].key) /\ law_files[i].readable)
                  => InList(law_files[i].key, laws_data.laws)
        /\ \A i \in 1..Len(law_files) :
              ~law_files[i].readable => ~InList(law_files[i].key, laws_data.laws)
        /\ laws_data.warnings
               = Cardinality({i \in 1..Len(law_files) :
                                 Takes(reader, law_files[i].key) /\ ~law_files[i].readable})
\* Stage 3 could not read the first law listed, skipped a file that is no law, and
\* returned the law listed after them.
C20_Witness ==
    /\ reader = "stage3"
    /\ listing_ok
    /\ law_files = << [key |-> "laws/banking.html", readable |-> FALSE],
                      [key |-> "laws/notes.pdf", readable |-> TRUE],
                      [key |-> "laws/climate.txt", readable |-> TRUE] >>
    /\ laws_data.state = "returned"
    /\ laws_data.laws = <<"laws/climate.txt">>
    /\ laws_data.warnings = 1

\* C21: every object-store read and write issued by the pipeline is attempted at
\* most 3 times, returns the result of the first attempt that succeeds, and
\* raises to its caller only after 3 consecutive failed attempts.
C21_EveryStoreCallRetried ==
    /\ attempt_number <= stop_max_attempt_number
    /\ call_outcome = "returned" => attempt_number = failures_ahead + 1
    /\ call_outcome = "raised" => attempt_number = stop_max_attempt_number

RowsOf(companies, c) ==
    Cardinality({i \in 1..Len(companies) :
                    companies[i].ticker = c.ticker /\ companies[i].market_cap = c.market_cap})

RECURSIVE SumCompaniesCount(_, _)
SumCompaniesCount(sectors, k) ==
    IF k > Len(sectors) THEN 0
    ELSE sectors[k].companies_count + SumCompaniesCount(sectors, k + 1)

RECURSIVE SumRowsOf(_, _, _)
SumRowsOf(sectors, c, k) ==
    IF k > Len(sectors) THEN 0
    ELSE RowsOf(sectors[k].companies, c) + SumRowsOf(sectors, c, k + 1)

\* C22: no company is lost within a run and every company is in exactly one sector:
\* each row of stage 1 is once in the stage-2 taxonomy, all rows of a ticker in the
\* same sector, and has one entry, in order, in stage 6's reallocated companies; the
\* company counts of stages 1, 2 (summed over the sectors) and 6 are equal.
C22_CompaniesKeptOneSectorEach ==
    /\ stage >= 2 =>
          /\ SumCompaniesCount(sector_taxonomy, 1) = Len(portfolio_data)
          /\ \A k \in 1..Len(sector_taxonomy) :
                sector_taxonomy[k].companies_count = Len(sector_taxonomy[k].companies)
          /\ \A c \in InputCompanies :
                SumRowsOf(sector_taxonomy, c, 1) = RowsOf(portfolio_data, c)
          /\ \A i \in 1..Len(portfolio_data) :
                Cardinality({k \in 1..Len(sector_taxonomy) :
                    \E j \in 1..Len(sector_taxonomy[k].companies) :
                        sector_taxonomy[k].companies[j].ticker = portfolio_data[i].ticker}) = 1
    /\ stage = 6 =>
          /\ Len(reallocated_companies) = Len(portfolio_data)
          /\ \A i \in 1..Len(portfolio_data) :
                reallocated_companies[i].ticker = portfolio_data[i].ticker

\* A run that reached stage 6 with two companies of two sectors, one of them
\* without market cap.
C22_Witness ==
    /\ stage = 6
    /\ Len(portfolio_data) = 2
    /\ Len(sector_taxonomy) = 2
    /\ portfolio_data[1].market_cap = 0
    /\ Len(reallocated_companies) = 2

RECURSIVE SumWeightTimes(_, _, _)
SumWeightTimes(companies, total, j) ==
    IF j > Len(companies) THEN 0
    ELSE (companies[j].sector_weight_percent.num * total)
             \div companies[j].sector_weight_percent.den
         + SumWeightTimes(companies, total, j + 1)

\* C24: in every sector of the taxonomy total_market_cap is the sum of the members'
\* market caps and each member's sector_weight_percent is its market cap divided by
\* that total times 100: the weights of a sector sum to 100 when total_market_cap > 0
\* and are all 0 otherwise.
C24_SectorWeightsSumTo100 ==
    \A k \in 1..Len(sector_taxonomy) :
        LET sector == sector_taxonomy[k]
            total == sector.total_market_cap
        IN  /\ total = SumMarketCap(sector.companies, 1)
            /\ total > 0 =>
                  /\ \A j \in 1..Len(sector.companies) :
                        sector.companies[j].sector_weight_percent.num * total
                            = sector.companies[j].market_cap * 100
                                * sector.companies[j].sector_weight_percent.den
                  /\ SumWeightTimes(sector.companies, total, 1) = 100 * total
            /\ total <= 0 =>
                  \A j \in 1..Len(sector.companies) :
                      sector.companies[j].sector_weight_percent.num = 0

\* A sector of two members of market caps 1000 and 3000: the second weighs 75 percent.
C24_Witness ==
    /\ stage >= 2
    /\ \E k \in 1..Len(sector_taxonomy) :
          /\ Len(sector_taxonomy[k].companies) = 2
          /\ sector_taxonomy[k].companies[1].market_cap = 1000
          /\ sector_taxonomy[k].companies[2].market_cap = 3000
          /\ sector_taxonomy[k].companies[2].sector_weight_percent = [num |-> 300000, den |-> 4000]

\* C25: for every sector flow the mean coefficient c is classified growth when
\* c >= 6, decline when c <= 4 and stagnation otherwise; the forecast's
\* absorption_timeline_years is 3 for growth, 2 for decline and 1 for stagnation, and
\* it has min(timeline, max_projection_years) yearly projections, numbered 1..n.
C25_DirectionTimelineProjections ==
    /\ \A i \in 1..Len(sector_flows) :
          LET c == sector_flows[i].net_impact_coefficient
              direction == sector_flows[i].impact_direction
          IN  /\ direction = "growth" <=> c.sum >= 6 * HalfUnits * c.count
              /\ direction = "decline" <=> c.sum <= 4 * HalfUnits * c.count
              /\ direction = "stagnation" <=>
                    /\ c.sum > 4 * HalfUnits * c.count
                    /\ c.sum < 6 * HalfUnits * c.count
    /\ \A i \in 1..Len(sector_forecasts) :
          LET direction == sector_flows[i].impact_direction
              timeline == sector_forecasts[i].absorption_timeline_years
              projections == sector_forecasts[i].yearly_projections
          IN  /\ sector_forecasts[i].sector_id = sector_flows[i].sector_id
              /\ direction = "growth" => timeline = 3
              /\ direction = "decline" => timeline = 2
              /\ direction = "stagnation" => timeline = 1
              /\ Len(projections)
                    = IF timeline <= execution_parameters.max_projection_years
                      THEN timeline ELSE execution_parameters.max_projection_years
              /\ \A y \in 1..Len(projections) : projections[y].year = y

\* A growing sector whose 3-year timeline is cut to 2 projections beside a
\* stagnating or declining one.
C25_Witness ==
    /\ stage >= 5
    /\ execution_parameters.max_projection_years = 2
    /\ \E i \in 1..Len(sector_forecasts) :
          /\ sector_flows[i].impact_direction = "growth"
          /\ sector_forecasts[i].absorption_timeline_years = 3
          /\ Len(sector_forecasts[i].yearly_projections) = 2
    /\ \E i \in 1..Len(sector_forecasts) :
          sector_flows[i].impact_direction # "growth"

\* C26: for every law, a sector impact is emitted for a sector if and only if the
\* sector's coefficient is >= min_impact_coefficient; a sector below it is left out,
\* not zero-filled; an emitted impact is "direct" when its coefficient is >= 7 and
\* "indirect" otherwise.
C26_ImpactEmittedIffAboveThreshold ==
    stage >= 3 =>
        \A n \in 1..Len(laws_analyzed) :
            LET impacts == laws_analyzed[n].sector_impacts
            IN  /\ \A k \in 1..Len(sector_taxonomy) :
                      LET sid == sector_taxonomy[k].sector_id
                          emitted == {i \in 1..Len(impacts) : impacts[i].sector_id = sid}
                          above == _calculate_impact_coefficient(laws_read[n], sid)
                                       >= execution_parameters.min_impact_coefficient * HalfUnits
                      IN  /\ above => Cardinality(emitted) = 1
                          /\ ~above => emitted = {}
                /\ \A i \in 1..Len(impacts) :
                      /\ impacts[i].impact_coefficient
                            = _calculate_impact_coefficient(laws_read[n], impacts[i].sector_id)
                      /\ impacts[i].impact_coefficient
                            >= execution_parameters.min_impact_coefficient * HalfUnits
                      /\ impacts[i].impact_type = "direct"
                            <=> impacts[i].impact_coefficient >= 7 * HalfUnits
                      /\ impacts[i].impact_type = "indirect"
                            <=> impacts[i].impact_coefficient < 7 * HalfUnits

\* The fallback law with threshold 3 on a taxonomy of technology and industrials:
\* industrials is emitted with coefficient exactly 7 as direct, technology with 3 as
\* indirect; with the law on technology industrials (coefficient 1) is left out.
C26_Witness ==
    /\ stage >= 3
    /\ execution_parameters.min_impact_coefficient = 3
    /\ Len(sector_taxonomy) = 2
    /\ Len(laws_analyzed) = 2
    /\ Len(laws_analyzed[1].sector_impacts) = 2
    /\ \E i \in 1..2 :
          /\ laws_analyzed[1].sector_impacts[i].impact_coefficient = 7 * HalfUnits
          /\ laws_analyzed[1].sector_impacts[i].impact_type = "direct"
    /\ \E i \in 1..2 : laws_analyzed[1].sector_impacts[i].impact_type = "indirect"
    /\ Len(laws_analyzed[2].sector_impacts) = 1

\* The sectors of the taxonomy no analysed law has an impact on.
SectorsWithoutImpact ==
    {k \in 1..Len(sector_taxonomy) :
        \A n \in 1..Len(laws_analyzed) : \A i \in 1..Len(laws_analyzed[n].sector_impacts) :
            laws_analyzed[n].sector_impacts[i].sector_id # sector_taxonomy[k].sector_id}

\* C27: a sector of the taxonomy without emitted impact in any analysed law gets
\* net coefficient 0 in stage 4, hence direction "decline" and rate -20%, and a
\* 2-year absorption timeline in stage 5.
C27_NoImpactMeansDecline ==
    /\ stage >= 4 =>
          \A k \in SectorsWithoutImpact :
              /\ sector_flows[k].sector_id = sector_taxonomy[k].sector_id
              /\ sector_flows[k].net_impact_coefficient.sum = 0
              /\ sector_flows[k].impact_direction = "decline"
              /\ sector_flows[k].monetary_impact.impact_rate = RateVeryNegative
              /\ sector_flows[k].monetary_impact.net_change
                    = sector_taxonomy[k].total_market_cap * RateVeryNegative
    /\ stage >= 5 =>
          \A k \in SectorsWithoutImpact :
              /\ sector_forecasts[k].sector_id = sector_taxonomy[k].sector_id
              /\ sector_forecasts[k].absorption_timeline_years = 2
              /\ sector_taxonomy[k].total_market_cap > 0 =>
                    sector_forecasts[k].total_percent_change = 0 - 20

\* The law on technology leaves industrials (coefficient 1) below threshold 3:
\* industrials, with market cap, is forecast to lose 20 percent in 2 years.
C27_Witness ==
    /\ stage >= 5
    /\ laws_read = <<TechnologyLaw>>
    /\ \E k \in SectorsWithoutImpact :
          /\ sector_taxonomy[k].sector_id = "industrials"
          /\ sector_taxonomy[k].total_market_cap > 0
          /\ sector_forecasts[k].total_percent_change = 0 - 20
    /\ SectorsWithoutImpact # 1..Len(sector_taxonomy)

\* C28: in a full run with no other writer stage 6 never takes the "other" fallback
\* nor the no-impact branch: every company's ticker is in the stage-2 sector map and
\* its sector has a stage-5 forecast, so applied_sector_impact_percent is that
\* forecast's total_percent_change times the weight factor.
C28_NoFallbackInFullRun ==
    stage = 6 =>
        \A i \in 1..Len(reallocated_companies) :
            LET company == reallocated_companies[i]
                forecasts == {j \in 1..Len(sector_forecasts) :
                                 sector_forecasts[j].sector_id = company.sector_id}
            IN  /\ company.in_sector_map
                /\ company.sector_id # "other"
                /\ company.sector_id = assigned_sector_of(portfolio_data[i])
                /\ company.has_forecast
                /\ Cardinality(forecasts) = 1
                /\ \A j \in forecasts :
                      company.applied_sector_impact_percent
                          = sector_forecasts[j].total_percent_change
                                * _calculate_weight_factor(company.sector_weight_percent)

\* A company alone in a sector no law has an impact on: its sector still has a
\* forecast (-20 percent) and, weighing 100 percent, the company gets factor 1.5.
C28_Witness ==
    /\ stage = 6
    /\ \E i \in 1..Len(reallocated_companies) :
          /\ \E k \in SectorsWithoutImpact :
                sector_taxonomy[k].sector_id = reallocated_companies[i].sector_id
          /\ reallocated_companies[i].sector_weight_percent = 100 * WeightUnits
          /\ reallocated_companies[i].applied_sector_impact_percent
                = (0 - 20) * ((15 * FixedOne) \div 10)

\* C29: stage 6 writes its two outputs one after the other, not atomically: when
\* writing the final CSV fails, 06_portfolio_reallocated.json has already been put
\* by this call and stays in the store, while the stage raises and the call is
\* reported as failed.
C29_CsvFailureLeavesReallocatedJson ==
    \A i \in 1..Len(calls) :
        calls[i].cause = "csv" =>
            /\ calls[i].agent_id = 6
            /\ calls[i].state = "raised"
            /\ calls[i].puts = {K06}
            /\ K06 \in store
            /\ writer[K06] = run
            /\ final_csv \in store => writer[final_csv] # run
            /\ i = Len(calls)
            /\ pc = "idle"
            /\ outcome = "raised"
            /\ mode = "single" =>
                  /\ Len(execution_log) = log_before + 1
                  /\ execution_log[Len(execution_log)].agent_id = 6
                  /\ execution_log[Len(execution_log)].status = "FAILED"

\* A full pipeline on an empty bucket whose sixth stage failed on the CSV: the
\* bucket holds 06_portfolio_reallocated.json without the final CSV.
C29_Witness ==
    /\ mode = "full"
    /\ Len(calls) = 6
    /\ calls[6].cause = "csv"
    /\ K06 \in store
    /\ final_csv \notin store

\* Order in which analyze_laws_s3 creates its strands.
StrandIds == <<"fetch_laws", "analyze_sectors", "calculate_weights", "save_s3">>

\* C30: the strands fetch_laws, analyze_sectors, calculate_weights and save_s3 are
\* created in that order, each only after the one before it is "completed"; at most
\* one strand is "running" at any time; on normal return all four are "completed" and
\* strands_executed is 4; a strand whose step raised is left "running".
C30_StrandsInOrderOneRunning ==
    /\ Len(active_strands) <= Len(StrandIds)
    /\ \A i \in 1..Len(active_strands) :
          /\ active_strands[i].strand_id = StrandIds[i]
          /\ i < Len(active_strands) => active_strands[i].status = "completed"
    /\ Cardinality({i \in 1..Len(active_strands) : active_strands[i].status = "running"}) <= 1
    /\ strand_pc = "returned" =>
          /\ Len(active_strands) = 4
          /\ \A i \in 1..4 : active_strands[i].status = "completed"
          /\ analysis_result.strands_executed = 4
    /\ strand_pc = "raised" =>
          /\ active_strands # <<>>
          /\ active_strands[Len(active_strands)].status = "running"
          /\ analysis_result.state = "raised"

\* A second call, after one that returned, raised in analyze_sectors: the list
\* holds the completed fetch_laws and the running analyze_sectors.
C30_Witness ==
    /\ analyses = 2
    /\ strand_pc = "raised"
    /\ Len(active_strands) = 2
    /\ active_strands[1].status = "completed"
    /\ active_strands[2].strand_id = "analyze_sectors"
    /\ active_strands[2].status = "running"

====
